---- MODULE Spec2Model ----
(***************************************************************************)
(* Model of the meshcore-hub collector: the MQTT subscriber that           *)
(* normalizes inbound messages (native and LetsMesh upload ingest modes),  *)
(* routes them to handlers, queues them for webhook dispatch and drains    *)
(* the queue on a background worker.                                       *)
(*                                                                         *)
(* Python values are modelled as tagged records:                           *)
(*   None   [t |-> "null"]            bool  [t |-> "bool", b |-> TRUE]     *)
(*   int    [t |-> "int", n |-> 5]    int too large for a float            *)
(*                                          [t |-> "bigint"]               *)
(*   float  [t |-> "float", k |-> "fin" | "inf" | "ninf" | "nan",          *)
(*           num |-> 125, den |-> 10]                                      *)
(*   str    [t |-> "str", s |-> "abc"]                                     *)
(*   dict   [t |-> "dict", d |-> << <<key, value>>, ... >>]  (insertion    *)
(*          order kept, keys unique)                                       *)
(*   list   [t |-> "list", l |-> << value, ... >>]                         *)
(* A raised exception is the value [t |-> "raise", e |-> "OverflowError"]. *)
(***************************************************************************)
EXTENDS Integers, Sequences, FiniteSets, TLC

(***************************************************************************)
(* Python values                                                           *)
(***************************************************************************)
None == [t |-> "null"]
B(b) == [t |-> "bool", b |-> b]
I(n) == [t |-> "int", n |-> n]
BigInt == [t |-> "bigint"]
F(num, den) == [t |-> "float", k |-> "fin", num |-> num, den |-> den]
FInf == [t |-> "float", k |-> "inf", num |-> 0, den |-> 1]
FNan == [t |-> "float", k |-> "nan", num |-> 0, den |-> 1]
S(s) == [t |-> "str", s |-> s]
D(d) == [t |-> "dict", d |-> d]
L(l) == [t |-> "list", l |-> l]
Raise(e) == [t |-> "raise", e |-> e]

IsNone(v) == v.t = "null"
IsStr(v) == v.t = "str"
IsDict(v) == v.t = "dict"
Raised(v) == v.t = "raise"

\* A local name of a function body: Let([name \in {value} |-> rest]) is
\* the rest of the body with the name bound to the value.  After a call that
\* may raise, the rest runs only when the call returned:
\* Let([x \in {Call} |-> IF Raised(x) THEN x ELSE rest]).
Let(f) == f[CHOOSE v \in DOMAIN f : TRUE]

\* Python truthiness of a value (`if x`, `x or y`, `not x`).
Truthy(v) ==
    CASE v.t = "null" -> FALSE
      [] v.t = "bool" -> v.b
      [] v.t = "int" -> v.n # 0
      [] v.t = "bigint" -> TRUE
      [] v.t = "float" -> ~(v.k = "fin" /\ v.num = 0)
      [] v.t = "str" -> v.s # ""
      [] v.t = "dict" -> v.d # << >>
      [] v.t = "list" -> v.l # << >>
      [] OTHER -> FALSE

\* `a or b`
Or(a, b) == IF Truthy(a) THEN a ELSE b

(***************************************************************************)
(* dict operations on the sequence of <<key, value>> pairs                 *)
(***************************************************************************)
RECURSIVE KeyIndex(_, _, _)
KeyIndex(d, k, i) ==
    IF i > Len(d) THEN 0
    ELSE IF d[i][1] = k THEN i ELSE KeyIndex(d, k, i + 1)

HasKey(d, k) == KeyIndex(d, k, 1) # 0

\* dict.get(k): None when the key is absent.
Get(d, k) ==
    Let([i \in {KeyIndex(d, k, 1)} |-> IF i = 0 THEN None ELSE d[i][2]])

\* d[k] = v: an existing key keeps its position.
Put(d, k, v) ==
    Let([i \in {KeyIndex(d, k, 1)} |->
       IF i = 0 THEN Append(d, <<k, v>>)
       ELSE [d EXCEPT ![i] = <<k, v>>]])

\* d.pop(k, None)
Pop(d, k) ==
    Let([i \in {KeyIndex(d, k, 1)} |->
       IF i = 0 THEN d ELSE SubSeq(d, 1, i - 1) \o SubSeq(d, i + 1, Len(d))])

\* value.get(k) of a value already known to be a dict
VGet(v, k) == Get(v.d, k)

(***************************************************************************)
(* str operations                                                          *)
(***************************************************************************)
Char(s, i) == SubSeq(s, i, i)
Whitespace == {" ", "\t", "\n", "\r"}
HexDigits == {"0", "1", "2", "3", "4", "5", "6", "7", "8", "9",
              "A", "B", "C", "D", "E", "F"}
Digits == {"0", "1", "2", "3", "4", "5", "6", "7", "8", "9"}
LowerLetters == "abcdefghijklmnopqrstuvwxyz"
UpperLetters == "ABCDEFGHIJKLMNOPQRSTUVWXYZ"

RECURSIVE LStrip(_)
LStrip(s) ==
    IF s # "" /\ Char(s, 1) \in Whitespace
    THEN LStrip(SubSeq(s, 2, Len(s))) ELSE s

RECURSIVE RStrip(_)
RStrip(s) ==
    IF s # "" /\ Char(s, Len(s)) \in Whitespace
    THEN RStrip(SubSeq(s, 1, Len(s) - 1)) ELSE s

\* str.strip()
Strip(s) == RStrip(LStrip(s))

LetterIndex(letters, c) ==
    IF \E i \in 1..Len(letters) : Char(letters, i) = c
    THEN CHOOSE i \in 1..Len(letters) : Char(letters, i) = c
    ELSE 0

UpperChar(c) ==
    Let([i \in {LetterIndex(LowerLetters, c)} |->
       IF i = 0 THEN c ELSE Char(UpperLetters, i)])

LowerChar(c) ==
    Let([i \in {LetterIndex(UpperLetters, c)} |->
       IF i = 0 THEN c ELSE Char(LowerLetters, i)])

RECURSIVE Upper(_)
Upper(s) ==
    IF Len(s) <= 1 THEN UpperChar(s)
    ELSE Upper(SubSeq(s, 1, Len(s) \div 2))
         \o Upper(SubSeq(s, Len(s) \div 2 + 1, Len(s)))

RECURSIVE Lower(_)
Lower(s) ==
    IF Len(s) <= 1 THEN LowerChar(s)
    ELSE Lower(SubSeq(s, 1, Len(s) \div 2))
         \o Lower(SubSeq(s, Len(s) \div 2 + 1, Len(s)))

StartsWith(s, p) == Len(s) >= Len(p) /\ SubSeq(s, 1, Len(p)) = p

\* str.removeprefix(p)
RemovePrefix(s, p) ==
    IF StartsWith(s, p) THEN SubSeq(s, Len(p) + 1, Len(s)) ELSE s

\* `sub in s`
Contains(s, sub) ==
    \E i \in 1..(Len(s) - Len(sub) + 1) : SubSeq(s, i, i + Len(sub) - 1) = sub

AllIn(s, chars) == \A i \in 1..Len(s) : Char(s, i) \in chars

\* s.split(sep) for a one-character separator
RECURSIVE Split(_, _)
Split(s, sep) ==
    Let([hits \in {{i \in 1..Len(s) : Char(s, i) = sep}} |->
       IF hits = {} THEN <<s>>
       ELSE Let([i \in {CHOOSE h \in hits : \A g \in hits : h <= g} |->
               <<SubSeq(s, 1, i - 1)>> \o Split(SubSeq(s, i + 1, Len(s)), sep)])])

\* " ".join(parts)
RECURSIVE JoinSpace(_)
JoinSpace(parts) ==
    IF parts = << >> THEN ""
    ELSE IF Len(parts) = 1 THEN parts[1]
    ELSE parts[1] \o " " \o JoinSpace(Tail(parts))

(***************************************************************************)
(* int(...) and float(...) of Python, on the values and strings modelled   *)
(* here.  Numeric strings are read over the alphabet of sign, decimal      *)
(* digits, "_" between digits (int), one "." (float) and the words         *)
(* inf / infinity / nan (float); exponent notation is outside the inputs   *)
(* the model draws.                                                        *)
(***************************************************************************)
DigitVal(c) == LetterIndex("0123456789", c) - 1

RECURSIVE DigitsValue(_, _)
DigitsValue(s, acc) ==
    IF s = "" THEN acc
    ELSE IF Char(s, 1) = "_" THEN DigitsValue(SubSeq(s, 2, Len(s)), acc)
    ELSE DigitsValue(SubSeq(s, 2, Len(s)), acc * 10 + DigitVal(Char(s, 1)))

RECURSIVE Pow10(_)
Pow10(n) == IF n = 0 THEN 1 ELSE 10 * Pow10(n - 1)

HasSign(s) == s # "" /\ Char(s, 1) \in {"+", "-"}
Unsigned(s) == IF HasSign(s) THEN SubSeq(s, 2, Len(s)) ELSE s
SignOf(s) == IF s # "" /\ Char(s, 1) = "-" THEN -1 ELSE 1

\* The digit groups int() accepts: digits, single underscores between them.
IsIntLiteral(u) ==
    /\ u # ""
    /\ AllIn(u, Digits \cup {"_"})
    /\ Char(u, 1) # "_"
    /\ Char(u, Len(u)) # "_"
    /\ ~Contains(u, "__")

\* int(s) of a str: the int, or ValueError.
IntOfStr(s) ==
    Let([c \in {Strip(s)} |->
        Let([u \in {Unsigned(c)} |->
       IF IsIntLiteral(u) THEN I(SignOf(c) * DigitsValue(u, 0))
       ELSE Raise("ValueError")])])

\* float(s) of a str: the float, or ValueError.
FloatOfStr(s) ==
    Let([c \in {Strip(s)} |->
        Let([u \in {Unsigned(c)} |->
        Let([w \in {Lower(u)} |->
        Let([parts \in {Split(u, ".")} |->
       IF w \in {"inf", "infinity"}
       THEN (IF SignOf(c) = -1
             THEN [t |-> "float", k |-> "ninf", num |-> 0, den |-> 1]
             ELSE FInf)
       ELSE IF w = "nan" THEN FNan
       ELSE IF Len(parts) = 1 /\ IsIntLiteral(u)
       THEN F(SignOf(c) * DigitsValue(u, 0), 1)
       ELSE IF /\ Len(parts) = 2
               /\ AllIn(parts[1], Digits) /\ AllIn(parts[2], Digits)
               /\ parts[1] \o parts[2] # ""
       THEN F(SignOf(c) * DigitsValue(parts[1] \o parts[2], 0),
              Pow10(Len(parts[2])))
       ELSE Raise("ValueError")])])])])

\* int(x) of a float: truncation toward zero; infinities and NaN raise.
IntOfFloat(v) ==
    IF v.k \in {"inf", "ninf"} THEN Raise("OverflowError")
    ELSE IF v.k = "nan" THEN Raise("ValueError")
    ELSE IF v.num >= 0 THEN I(v.num \div v.den)
    ELSE I(-((-v.num) \div v.den))

\* float(x) of an int or bool: an int beyond the float range raises.
FloatOfInt(v) ==
    CASE v.t = "bool" -> F(IF v.b THEN 1 ELSE 0, 1)
      [] v.t = "int" -> F(v.n, 1)
      [] v.t = "bigint" -> Raise("OverflowError")

IsInt(v) == v.t \in {"int", "bool", "bigint"}
IsFloat(v) == v.t = "float"

\* `except ValueError: return None`
CatchValueError(v) == IF Raised(v) /\ v.e = "ValueError" THEN None ELSE v

\* x == n for an int-like x and an int n (True == 1, False == 0).
NumEq(v, n) ==
    CASE v.t = "int" -> v.n = n
      [] v.t = "bool" -> (IF v.b THEN 1 ELSE 0) = n
      [] OTHER -> FALSE

\* Subscriber._parse_int
ParseInt(value) ==
    IF IsNone(value) THEN None
    ELSE IF IsInt(value) THEN value
    ELSE IF IsFloat(value) THEN IntOfFloat(value)
    ELSE IF IsStr(value) THEN CatchValueError(IntOfStr(value.s))
    ELSE None

\* Subscriber._parse_float
ParseFloat(value) ==
    IF IsNone(value) THEN None
    ELSE IF IsInt(value) \/ IsFloat(value)
    THEN (IF IsFloat(value) THEN value ELSE FloatOfInt(value))
    ELSE IF IsStr(value) THEN CatchValueError(FloatOfStr(value.s))
    ELSE None

\* Subscriber._parse_path_length
ParsePathLength(value) ==
    IF IsNone(value) THEN None
    ELSE IF value.t = "list" THEN I(Len(value.l))
    ELSE IF IsStr(value)
    THEN Let([path \in {Strip(value.s)} |->
            IF path = "" THEN None
            ELSE IF Len(path) % 2 = 0 THEN I(Len(path) \div 2)
            ELSE I(Len(path))])
    ELSE ParseInt(value)

\* int(x) of an int or bool
IntOfInt(v) == IF v.t = "bool" THEN I(IF v.b THEN 1 ELSE 0) ELSE v

\* Subscriber._parse_sender_timestamp
ParseSenderTimestamp(payload) ==
    Let([sender_ts \in {Get(payload, "sender_timestamp")} |->
       IF IsInt(sender_ts) THEN IntOfInt(sender_ts)
       ELSE IF IsFloat(sender_ts) THEN IntOfFloat(sender_ts)
       ELSE IF IsStr(sender_ts)
       THEN CatchValueError(Let([f \in {FloatOfStr(sender_ts.s)} |->
                                 IF Raised(f) THEN f ELSE IntOfFloat(f)]))
       ELSE None])

(***************************************************************************)
(* Field normalizers of the subscriber                                     *)
(***************************************************************************)
\* Subscriber._normalize_full_public_key
NormalizeFullPublicKey(value) ==
    IF ~IsStr(value) THEN None
    ELSE Let([normalized \in
                  {Upper(RemovePrefix(RemovePrefix(Strip(value.s), "0x"), "0X"))} |->
            IF Len(normalized) # 64 THEN None
            ELSE IF ~AllIn(normalized, HexDigits) THEN None
            ELSE S(normalized)])

\* Subscriber._normalize_pubkey_prefix
NormalizePubkeyPrefix(value) ==
    IF ~IsStr(value) THEN None
    ELSE Let([normalized \in
                  {Upper(RemovePrefix(RemovePrefix(Strip(value.s), "0x"), "0X"))} |->
            IF normalized = "" THEN None
            ELSE IF ~AllIn(normalized, HexDigits) THEN None
            ELSE IF Len(normalized) < 8 THEN None
            ELSE S(SubSeq(normalized, 1, IF Len(normalized) < 12
                                         THEN Len(normalized) ELSE 12))])

HexVal(c) == LetterIndex("0123456789ABCDEF", c) - 1

\* Subscriber._parse_channel_hash_idx
ParseChannelHashIdx(channel_hash) ==
    Let([normalized \in {Upper(Strip(channel_hash))} |->
       IF Len(normalized) # 2 THEN None
       ELSE IF ~AllIn(normalized, HexDigits) THEN None
       ELSE I(16 * HexVal(Char(normalized, 1)) + HexVal(Char(normalized, 2)))])

\* str(n) of a non-negative int
RECURSIVE IntToStr(_)
IntToStr(n) ==
    IF n < 10 THEN Char("0123456789", n + 1)
    ELSE IntToStr(n \div 10) \o Char("0123456789", (n % 10) + 1)

\* f"{v}" of an int-like value
FormatInt(v) ==
    CASE v.t = "bool" -> (IF v.b THEN "True" ELSE "False")
      [] v.t = "int" -> (IF v.n < 0 THEN "-" \o IntToStr(-v.n) ELSE IntToStr(v.n))
      [] OTHER -> "<int>"

\* Subscriber._format_channel_label
FormatChannelLabel(channel_name, channel_hash, channel_idx) ==
    IF Truthy(channel_name) /\ Strip(channel_name.s) # ""
    THEN Let([cleaned \in {Strip(channel_name.s)} |->
            IF Lower(cleaned) = "public" THEN S("Public")
            ELSE IF StartsWith(cleaned, "#") THEN S(cleaned)
            ELSE S("#" \o cleaned)])
    ELSE IF ~IsNone(channel_idx) THEN S("Ch " \o FormatInt(channel_idx))
    ELSE IF Truthy(channel_hash) THEN S("Ch " \o Upper(channel_hash.s))
    ELSE None

\* Subscriber._normalize_sender_name
NormalizeSenderName(value) ==
    IF ~IsStr(value) THEN None
    ELSE Let([normalized \in {Strip(value.s)} |->
            IF normalized = "" THEN None
            ELSE IF Truthy(NormalizePubkeyPrefix(S(normalized))) THEN None
            ELSE S(normalized)])

\* Subscriber._prefix_sender_name
PrefixSenderName(text, sender_name) ==
    IF ~IsStr(sender_name) THEN text
    ELSE Let([sender \in {Strip(sender_name.s)} |->
            IF sender = "" THEN text
            ELSE IF StartsWith(Lower(LStrip(text)), Lower(sender \o ":"))
            THEN text
            ELSE sender \o ": " \o text])

\* The candidate strings of _normalize_letsmesh_adv_type, in key order.
RECURSIVE AdvTypeCandidates(_, _)
AdvTypeCandidates(payload, keys) ==
    IF keys = << >> THEN << >>
    ELSE Let([value \in {Get(payload, Head(keys))} |->
             Let([rest \in {AdvTypeCandidates(payload, Tail(keys))} |->
            IF IsStr(value) /\ Strip(value.s) # ""
            THEN <<Lower(Strip(value.s))>> \o rest
            ELSE rest])])

CanonicalNodeTypes == {"chat", "repeater", "room", "companion"}

RECURSIVE FirstCanonical(_)
FirstCanonical(candidates) ==
    IF candidates = << >> THEN None
    ELSE IF Head(candidates) \in CanonicalNodeTypes THEN S(Head(candidates))
    ELSE FirstCanonical(Tail(candidates))

\* Subscriber._normalize_letsmesh_adv_type
NormalizeLetsmeshAdvType(payload) ==
    Let([candidates \in {AdvTypeCandidates(payload, <<"adv_type", "type", "node_type",
                                         "role", "mode", "status">>)
            \o AdvTypeCandidates(payload, <<"origin", "name", "model">>)} |->
        Let([normalized \in {JoinSpace(candidates)} |->
       IF candidates = << >> THEN None
       ELSE IF \E token \in {"room server", "roomserver", "room"} :
                   Contains(normalized, token)
       THEN S("room")
       ELSE IF \E token \in {"repeater", "relay"} : Contains(normalized, token)
       THEN S("repeater")
       ELSE IF \E token \in {"companion", "observer"} :
                   Contains(normalized, token)
       THEN S("companion")
       ELSE IF Contains(normalized, "chat") THEN S("chat")
       ELSE FirstCanonical(candidates)])])

\* Subscriber._normalize_letsmesh_node_type
NormalizeLetsmeshNodeType(value) ==
    IF IsNone(value) THEN None
    ELSE IF IsInt(value) \/ IsFloat(value)
    THEN Let([numeric \in
                  {IF IsFloat(value) THEN IntOfFloat(value) ELSE IntOfInt(value)} |->
              IF Raised(numeric) THEN numeric ELSE
                  IF NumEq(numeric, 0) THEN None
                  ELSE IF NumEq(numeric, 1) THEN S("chat")
                  ELSE IF NumEq(numeric, 2) THEN S("repeater")
                  ELSE IF NumEq(numeric, 3) THEN S("room")
                  ELSE IF NumEq(numeric, 4) THEN S("companion")
                  ELSE None])
    ELSE IF IsStr(value)
    THEN Let([normalized \in {Strip(value.s)} |->
            IF normalized = "" THEN None
            ELSE NormalizeLetsmeshAdvType(<< <<"type", S(normalized)>> >>)])
    ELSE None

(***************************************************************************)
(* Extraction from the decoder's JSON output                               *)
(***************************************************************************)
TextKeys == <<"text", "message", "msg", "body", "content">>

RECURSIVE FirstText(_, _)
FirstText(payload, keys) ==
    IF keys = << >> THEN None
    ELSE Let([value \in {Get(payload, Head(keys))} |->
            IF IsStr(value) /\ Strip(value.s) # "" THEN S(Strip(value.s))
            ELSE FirstText(payload, Tail(keys))])

\* Subscriber._extract_letsmesh_text
RECURSIVE ExtractLetsmeshText(_, _)
RECURSIVE NestedText(_, _, _)
NestedText(payload, i, depth) ==
    IF i > Len(payload) THEN None
    ELSE Let([nested \in {payload[i][2]} |->
             Let([text \in {IF IsDict(nested)
                     THEN ExtractLetsmeshText(nested.d, depth - 1)
                     ELSE None} |->
            IF Truthy(text) THEN text ELSE NestedText(payload, i + 1, depth)])])

ExtractLetsmeshText(payload, depth) ==
    IF depth < 0 THEN None
    ELSE Let([direct \in {FirstText(payload, TextKeys)} |->
            IF ~IsNone(direct) THEN direct
            ELSE NestedText(payload, 1, depth)])

TextSearchDepth == 3

\* decoded_packet["payload"] when both are dicts, else None
DecoderPayloadField(decoded_packet) ==
    IF ~IsDict(decoded_packet) THEN None
    ELSE Let([payload \in {VGet(decoded_packet, "payload")} |->
            IF IsDict(payload) THEN payload ELSE None])

\* Subscriber._extract_letsmesh_decoder_text
ExtractLetsmeshDecoderText(decoded_packet) ==
    Let([payload \in {DecoderPayloadField(decoded_packet)} |->
       IF IsNone(payload) THEN None
       ELSE ExtractLetsmeshText(payload.d, TextSearchDepth)])

\* Subscriber._extract_letsmesh_decoder_payload
ExtractLetsmeshDecoderPayload(decoded_packet) ==
    Let([payload \in {DecoderPayloadField(decoded_packet)} |->
       IF IsNone(payload) THEN None
       ELSE Let([decoded \in {VGet(payload, "decoded")} |->
               IF IsDict(decoded) THEN decoded ELSE None])])

\* decoded_packet["payload"]["decoded"]["decrypted"] when all are dicts
DecoderDecrypted(decoded_packet) ==
    Let([decoded \in {ExtractLetsmeshDecoderPayload(decoded_packet)} |->
       IF IsNone(decoded) THEN None
       ELSE Let([decrypted \in {VGet(decoded, "decrypted")} |->
               IF IsDict(decrypted) THEN decrypted ELSE None])])

\* Subscriber._extract_letsmesh_decoder_sender_timestamp
ExtractLetsmeshDecoderSenderTimestamp(decoded_packet) ==
    Let([decrypted \in {DecoderDecrypted(decoded_packet)} |->
       IF IsNone(decrypted) THEN None
       ELSE ParseInt(VGet(decrypted, "timestamp"))])

\* Subscriber._extract_letsmesh_decoder_sender
ExtractLetsmeshDecoderSender(decoded_packet) ==
    Let([decrypted \in {DecoderDecrypted(decoded_packet)} |->
       IF IsNone(decrypted) THEN None
       ELSE Let([sender \in {VGet(decrypted, "sender")} |->
                Let([source_hash \in {VGet(ExtractLetsmeshDecoderPayload(decoded_packet),
                         "sourceHash")} |->
               IF IsStr(sender) /\ Strip(sender.s) # ""
               THEN S(Strip(sender.s))
               ELSE IF IsStr(source_hash) /\ Strip(source_hash.s) # ""
               THEN S(Strip(source_hash.s))
               ELSE None])])])

\* Subscriber._extract_letsmesh_decoder_payload_type
ExtractLetsmeshDecoderPayloadType(decoded_packet) ==
    IF ~IsDict(decoded_packet) THEN None
    ELSE Let([payload_type \in
                  {ParseInt(VGet(decoded_packet, "payloadType"))} |->
              IF Raised(payload_type) THEN payload_type ELSE
                  IF ~IsNone(payload_type) THEN payload_type
                  ELSE Let([decoded \in
                                {ExtractLetsmeshDecoderPayload(decoded_packet)} |->
                          IF ~Truthy(decoded) THEN None
                          ELSE ParseInt(VGet(decoded, "type"))])])

\* Subscriber._resolve_letsmesh_packet_type
ResolveLetsmeshPacketType(payload, decoded_packet) ==
    Let([packet_type \in {ParseInt(Get(payload, "packet_type"))} |->
         IF Raised(packet_type) THEN packet_type ELSE
             IF ~IsNone(packet_type) THEN packet_type
             ELSE ExtractLetsmeshDecoderPayloadType(decoded_packet)])

SenderKeys == <<"pubkey_prefix", "sourceHash", "source_hash", "source",
                "sender", "from", "src">>

\* Subscriber._extract_letsmesh_sender_from_payload
ExtractLetsmeshSenderFromPayload(payload) == FirstText(payload, SenderKeys)

\* Subscriber._extract_letsmesh_decoder_txt_type
ExtractLetsmeshDecoderTxtType(decoded_packet) ==
    IF ~IsDict(decoded_packet) THEN None
    ELSE ParseInt(VGet(decoded_packet, "payloadType"))

\* Subscriber._extract_letsmesh_decoder_path_length
ExtractLetsmeshDecoderPathLength(decoded_packet) ==
    IF ~IsDict(decoded_packet) THEN None
    ELSE ParseInt(VGet(decoded_packet, "pathLength"))

\* Subscriber._extract_letsmesh_decoder_channel_hash
ExtractLetsmeshDecoderChannelHash(decoded_packet) ==
    Let([decoded \in {ExtractLetsmeshDecoderPayload(decoded_packet)} |->
       IF IsNone(decoded) THEN None
       ELSE Let([channel_hash \in {VGet(decoded, "channelHash")} |->
               IF ~IsStr(channel_hash) THEN None
               ELSE Let([normalized \in {Upper(Strip(channel_hash.s))} |->
                       IF Len(normalized) # 2 THEN None
                       ELSE IF ~AllIn(normalized, HexDigits) THEN None
                       ELSE S(normalized)])])])

(***************************************************************************)
(* LetsMeshPacketDecoder.  The decoder's mutable state is the record       *)
(*   [enabled, has_command, cache, checked, available, warned]             *)
(* (cache: the insertion-ordered dict as a sequence of <<raw, decoded>>).  *)
(* Operators that may change it take and return a thread state             *)
(*   st = [dec |-> decoder state, k |-> subprocess runs so far in this     *)
(*         callback]                                                       *)
(* and the environment env = [command_exists, procs]: whether the decoder  *)
(* executable is on the host and what the k-th subprocess run gives:       *)
(*   [kind |-> "timeout" | "oserror" | "undecodable" | "exit", returncode, *)
(*    out |-> "empty" | "nonjson" | "json", json |-> the parsed value].    *)
(***************************************************************************)
\* The size of the decode cache (_decode_cache_maxsize is 2048 in the code;
\* the model runs it at a small size).
DecodeCacheMaxsize == 2

Ret(value, st) == [value |-> value, st |-> st]

\* LetsMeshPacketDecoder._is_command_available
IsCommandAvailable(st, env) ==
    IF st.dec.checked THEN Ret(st.dec.available, st)
    ELSE Let([available \in {st.dec.has_command /\ env.command_exists} |->
             Let([warn \in {~available /\ ~st.dec.warned} |->
            Ret(available,
                [st EXCEPT !.dec.checked = TRUE,
                           !.dec.available = available,
                           !.dec.warned = IF warn THEN TRUE ELSE @])])])

\* What one run of the decoder subprocess resolves to (lines 209-246 of
\* _decode_raw).  subprocess.run(..., text=True) decodes the captured output
\* before it returns: output that is not text in the locale's encoding
\* ("undecodable") raises UnicodeDecodeError, which is neither of the two
\* exceptions the try statement catches.
SubprocessResult(proc) ==
    IF proc.kind \in {"timeout", "oserror"} THEN None
    ELSE IF proc.kind = "undecodable" THEN Raise("UnicodeDecodeError")
    ELSE IF proc.returncode # 0 THEN None
    ELSE IF proc.out = "empty" THEN None
    ELSE IF proc.out = "nonjson" THEN None
    ELSE IF IsDict(proc.json) THEN proc.json ELSE None

\* LetsMeshPacketDecoder._decode_raw
DecodeRaw(st, env) ==
    IF ~st.dec.enabled THEN Ret(None, st)
    ELSE Let([avail \in {IsCommandAvailable(st, env)} |->
            IF ~avail.value THEN Ret(None, avail.st)
            ELSE Ret(SubprocessResult(env.procs[avail.st.k + 1]),
                     [avail.st EXCEPT !.k = @ + 1])])

CacheInsertEvictingNewest(cache, clean_hex, decoded) ==
    Let([inserted \in {Put(cache, clean_hex, decoded)} |->
       IF Len(inserted) > DecodeCacheMaxsize
       THEN SubSeq(inserted, 1, Len(inserted) - 1) ELSE inserted])

\* self._decode_cache[clean_hex] = decoded, then the overflow eviction
CacheInsert(cache, clean_hex, decoded) ==
    Let([inserted \in {Put(cache, clean_hex, decoded)} |->
       IF Len(inserted) > DecodeCacheMaxsize THEN Tail(inserted) ELSE inserted])

DecodePayloadCachingSuccessOnly(payload, st, env) ==
    Let([raw_hex \in {Get(payload, "raw")} |->
       IF ~IsStr(raw_hex) THEN Ret(None, st)
       ELSE Let([clean_hex \in {Strip(raw_hex.s)} |->
               IF clean_hex = "" THEN Ret(None, st)
               ELSE IF HasKey(st.dec.cache, clean_hex)
               THEN Ret(Get(st.dec.cache, clean_hex), st)
               ELSE Let([r \in {DecodeRaw(st, env)} |->
                       IF ~IsDict(r.value) THEN r
                       ELSE Ret(r.value,
                                [r.st EXCEPT !.dec.cache =
                                     CacheInsert(@, clean_hex, r.value)])])])])

\* LetsMeshPacketDecoder.decode_payload
DecodePayload(payload, st, env) ==
    Let([raw_hex \in {Get(payload, "raw")} |->
       IF ~IsStr(raw_hex) THEN Ret(None, st)
       ELSE Let([clean_hex \in {Strip(raw_hex.s)} |->
               IF clean_hex = "" THEN Ret(None, st)
               ELSE IF HasKey(st.dec.cache, clean_hex)
               THEN Ret(Get(st.dec.cache, clean_hex), st)
               ELSE Let([r \in {DecodeRaw(st, env)} |->
                       IF Raised(r.value) THEN r
                       ELSE Ret(r.value,
                                [r.st EXCEPT !.dec.cache =
                                     CacheInsert(@, clean_hex, r.value)])])])])

(***************************************************************************)
(* Packet Decoder Bridge: channel keys                                     *)
(***************************************************************************)
\* LetsMeshPacketDecoder.BUILTIN_CHANNEL_KEYS: (label, key) pairs
BuiltinChannelKeys ==
    << <<"Public", "8B3387E9C5CDEA6AC9E5EDBAA115CD72">>,
       <<"test", "9CD8FCF22A47333B591D96A2B848B73F">> >>

\* string.hexdigits
StringHexDigits == HexDigits \cup {"a", "b", "c", "d", "e", "f"}

\* LetsMeshPacketDecoder._is_hex
IsHex(value) == value # "" /\ AllIn(value, StringHexDigits)

\* hashlib.sha256(key).digest()[:1].hex().upper() of the keys the model
\* configures: the values hashlib computes.  "00" and "9C" are two keys with
\* the same first digest byte.
Sha256FirstByte ==
    << <<"8B3387E9C5CDEA6AC9E5EDBAA115CD72", "11">>,
       <<"9CD8FCF22A47333B591D96A2B848B73F", "D9">>,
       <<"00", "6E">>, <<"9C", "6E">>, <<"AB", "08">>, <<"CD", "9A">>,
       <<"EF", "4D">>, <<"12", "F2">>, <<"56", "DE">> >>

\* LetsMeshPacketDecoder._compute_channel_hash: bytes.fromhex raises
\* ValueError for a string with an odd number of hex digits.
ComputeChannelHash(key_hex) ==
    IF Len(key_hex) % 2 # 0 THEN Raise("ValueError")
    ELSE S(Get(Sha256FirstByte, key_hex))

\* LetsMeshPacketDecoder.ChannelKey
ChannelKey(label, key_hex, channel_hash) ==
    [t |-> "ChannelKey", label |-> label, key_hex |-> key_hex,
     channel_hash |-> channel_hash]

\* the index of the first occurrence of the character sep in s, 0 if none
IndexOf(s, sep) ==
    IF \E i \in 1..Len(s) : Char(s, i) = sep
    THEN CHOOSE i \in 1..Len(s) :
             Char(s, i) = sep /\ \A j \in 1..(i - 1) : Char(s, j) # sep
    ELSE 0

\* str.lstrip("#")
RECURSIVE LStripHash(_)
LStripHash(s) ==
    IF s # "" /\ Char(s, 1) = "#" THEN LStripHash(SubSeq(s, 2, Len(s))) ELSE s

\* value.removeprefix("0x").removeprefix("0X").strip()
StripHexPrefix(value) == Strip(RemovePrefix(RemovePrefix(value, "0x"), "0X"))

\* One round of the separator loop of _normalize_channel_entry (lines
\* 100-108): candidate.split(separator, 1) and the test of its right part.
SplitEntry(candidate, separator) ==
    Let([i \in {IndexOf(candidate, separator)} |->
       IF i = 0 THEN [found |-> FALSE]
       ELSE Let([right \in {StripHexPrefix(Strip(
                               SubSeq(candidate, i + 1, Len(candidate))))} |->
               IF right # "" /\ IsHex(right)
               THEN [found |-> TRUE,
                     label |-> LStripHash(Strip(SubSeq(candidate, 1, i - 1))),
                     key_candidate |-> right]
               ELSE [found |-> FALSE]])])

\* LetsMeshPacketDecoder._normalize_channel_entry
NormalizeChannelEntry(value) ==
    IF IsNone(value) THEN None
    ELSE Let([candidate \in {Strip(value.s)} |->
       IF candidate = "" THEN None
       ELSE Let([by_equals \in {SplitEntry(candidate, "=")} |->
            Let([by_colon \in {SplitEntry(candidate, ":")} |->
            Let([split \in {IF by_equals.found THEN by_equals
                  ELSE IF by_colon.found THEN by_colon
                  ELSE [found |-> FALSE, label |-> "",
                        key_candidate |-> candidate]} |->
            Let([key_candidate \in {StripHexPrefix(Strip(split.key_candidate))} |->
               IF key_candidate = "" \/ ~IsHex(key_candidate) THEN None
               ELSE Let([key_hex \in {Upper(key_candidate)} |->
                    Let([channel_hash \in {ComputeChannelHash(key_hex)} |->
                       IF Raised(channel_hash) THEN channel_hash
                       ELSE ChannelKey(IF Strip(split.label) # ""
                                       THEN S(Strip(split.label)) ELSE None,
                                       key_hex, channel_hash.s)])])])])])])])

SeenKeys(normalized) == {normalized[i].key_hex : i \in 1..Len(normalized)}

\* The body of the two loops of _normalize_channel_keys: an entry that does
\* not normalize, or whose key was seen, is skipped.
KeepFirst(normalized, entry) ==
    IF entry.key_hex \in SeenKeys(normalized) THEN normalized
    ELSE Append(normalized, entry)

\* One loop of _normalize_channel_keys over the entries `values`; an
\* exception of _normalize_channel_entry leaves the loop.
RECURSIVE NormalizeEntries(_, _)
NormalizeEntries(normalized, values) ==
    IF values = << >> THEN L(normalized)
    ELSE Let([entry \in {NormalizeChannelEntry(S(Head(values)))} |->
            IF Raised(entry) THEN entry
            ELSE IF IsNone(entry)
            THEN NormalizeEntries(normalized, Tail(values))
            ELSE NormalizeEntries(KeepFirst(normalized, entry),
                                  Tail(values))])

\* LetsMeshPacketDecoder._normalize_channel_keys: the list of ChannelKey,
\* or the exception raised
NormalizeChannelKeys(values) ==
    Let([builtin \in {NormalizeEntries(<< >>,
                 [i \in 1..Len(BuiltinChannelKeys) |->
                      BuiltinChannelKeys[i][1] \o "=" \o
                      BuiltinChannelKeys[i][2]])} |->
       IF Raised(builtin) THEN builtin
       ELSE NormalizeEntries(builtin.l, values)])

\* Lines 50-54 of __init__: the dict comprehension of _channel_names_by_hash;
\* a later info with the same channel hash replaces the label of an earlier.
RECURSIVE NamesByHash(_, _)
NamesByHash(names, infos) ==
    IF infos = << >> THEN names
    ELSE NamesByHash(
             IF Truthy(Head(infos).label)
             THEN Put(names, Head(infos).channel_hash, Head(infos).label)
             ELSE names,
             Tail(infos))

\* LetsMeshPacketDecoder.__init__: the decoder, or the exception raised
NewDecoder(enabled, has_command, channel_keys) ==
    Let([infos \in {NormalizeChannelKeys(channel_keys)} |->
       IF Raised(infos) THEN infos
       ELSE [t |-> "LetsMeshPacketDecoder",
             enabled |-> enabled, has_command |-> has_command,
             channel_key_infos |-> infos.l,
             channel_keys |-> [i \in 1..Len(infos.l) |-> infos.l[i].key_hex],
             channel_names_by_hash |-> NamesByHash(<< >>, infos.l),
             cache |-> << >>, checked |-> FALSE, available |-> FALSE,
             warned |-> FALSE]])

\* LetsMeshPacketDecoder.channel_name_from_decoded
ChannelNameFromDecoded(dec, decoded_packet) ==
    Let([decoded \in {ExtractLetsmeshDecoderPayload(decoded_packet)} |->
       IF IsNone(decoded) THEN None
       ELSE Let([channel_hash \in {VGet(decoded, "channelHash")} |->
               IF ~IsStr(channel_hash) THEN None
               ELSE Get(dec.channel_names_by_hash, Upper(channel_hash.s))])])

\* int(info.channel_hash, 16)
ChannelIdx(channel_hash) ==
    16 * HexVal(Char(channel_hash, 1)) + HexVal(Char(channel_hash, 2))

\* LetsMeshPacketDecoder.channel_labels_by_index: a dict from index to label
RECURSIVE LabelsByIndex(_, _)
LabelsByIndex(labels, infos) ==
    IF infos = << >> THEN labels
    ELSE Let([info \in {Head(infos)} |->
            IF ~Truthy(info.label) \/ Strip(info.label.s) = ""
            THEN LabelsByIndex(labels, Tail(infos))
            ELSE Let([label \in {Strip(info.label.s)} |->
                 Let([normalized_label \in {IF Lower(label) = "public" THEN "Public"
                       ELSE IF StartsWith(label, "#") THEN label
                       ELSE "#" \o label} |->
                 Let([channel_idx \in {ChannelIdx(info.channel_hash)} |->
                    LabelsByIndex(IF HasKey(labels, channel_idx) THEN labels
                                  ELSE Put(labels, channel_idx,
                                           S(normalized_label)),
                                  Tail(infos))])])])])

ChannelLabelsByIndex(dec) == LabelsByIndex(<< >>, dec.channel_key_infos)

\* Lines 204-207 of _decode_raw: the command line of the decoder
DecoderCommand(dec, raw_hex) ==
    <<"meshcore-decoder", "decode", raw_hex, "--json">>
        \o (IF dec.channel_keys # << >>
            THEN <<"--key">> \o dec.channel_keys ELSE << >>)

(***************************************************************************)
(* Event Normalizer: the LetsMesh upload builders                          *)
(***************************************************************************)
\* `a` when it is not None, else `b` (evaluated only then)
OrElse(a, b) == IF Raised(a) THEN a ELSE IF IsNone(a) THEN b ELSE a

\* normalized_payload[key] = value when value is set
PutIfSet(d, key, value) == IF IsNone(value) THEN d ELSE Put(d, key, value)
PutIfTruthy(d, key, value) == IF Truthy(value) THEN Put(d, key, value) ELSE d

Tuple(event_type, payload) ==
    [t |-> "tuple", event_type |-> event_type, payload |-> payload]

\* Lines 261-341 of _build_letsmesh_message_payload: the fields of a message
\* whose text was recovered.
MessageFields(payload, decoded_packet, packet_type, event_type, text, dec) ==
    Let([txt_type \in {OrElse(ParseInt(Get(payload, "txt_type")),
                ExtractLetsmeshDecoderTxtType(decoded_packet))} |->
    IF Raised(txt_type) THEN txt_type ELSE
    Let([path_len \in {OrElse(ParsePathLength(Get(payload, "path")),
                ExtractLetsmeshDecoderPathLength(decoded_packet))} |->
    IF Raised(path_len) THEN path_len ELSE
    Let([sender_timestamp \in {OrElse(ParseSenderTimestamp(payload),
                ExtractLetsmeshDecoderSenderTimestamp(decoded_packet))} |->
    IF Raised(sender_timestamp) THEN sender_timestamp ELSE
    Let([snr \in {OrElse(ParseFloat(Get(payload, "SNR")),
                ParseFloat(Get(payload, "snr")))} |->
    IF Raised(snr) THEN snr ELSE
    Let([payload_channel_idx \in {ParseInt(Get(payload, "channel_idx"))} |->
    IF Raised(payload_channel_idx) THEN payload_channel_idx ELSE
        Let([n1 \in {Put(payload, "txt_type",
                      IF ~IsNone(txt_type) THEN txt_type ELSE packet_type)} |->
            Let([n2 \in {Put(n1, "signature",
                      Or(Get(payload, "signature"), Get(payload, "hash")))} |->
            Let([n3 \in {Put(n2, "path_len", path_len)} |->
            Let([n4 \in {PutIfSet(n3, "sender_timestamp", sender_timestamp)} |->
            Let([n5 \in {PutIfSet(n4, "SNR", snr)} |->
            Let([decoded_sender \in
                     {ExtractLetsmeshDecoderSender(decoded_packet)} |->
            Let([sender_name \in {NormalizeSenderName(decoded_sender)} |->
            Let([n6 \in {PutIfTruthy(n5, "sender_name", sender_name)} |->
            Let([n7 \in {IF Truthy(decoded_sender) /\ ~Truthy(Get(n6, "pubkey_prefix"))
                  THEN PutIfTruthy(n6, "pubkey_prefix",
                                   NormalizePubkeyPrefix(decoded_sender))
                  ELSE n6} |->
            Let([n8 \in {IF ~Truthy(Get(n7, "pubkey_prefix"))
                  THEN PutIfTruthy(n7, "pubkey_prefix",
                                   ExtractLetsmeshSenderFromPayload(payload))
                  ELSE n7} |->
            Let([sender_prefix \in
                     {NormalizePubkeyPrefix(Get(n8, "pubkey_prefix"))} |->
            Let([n9 \in {IF Truthy(sender_prefix)
                  THEN Put(n8, "pubkey_prefix", sender_prefix)
                  ELSE Pop(n8, "pubkey_prefix")} |->
            Let([channel_hash \in
                     {ExtractLetsmeshDecoderChannelHash(decoded_packet)} |->
            Let([channel_idx \in {IF IsNone(payload_channel_idx) /\ Truthy(channel_hash)
                THEN ParseChannelHashIdx(channel_hash.s)
                ELSE payload_channel_idx} |->
            Let([n10 \in {PutIfSet(n9, "channel_idx", channel_idx)} |->
            Let([channel_label \in {FormatChannelLabel(ChannelNameFromDecoded(dec, decoded_packet),
                                   channel_hash, channel_idx)} |->
            Let([n11 \in {IF event_type = "channel_msg_recv"
                   THEN PutIfTruthy(n10, "channel_name", channel_label)
                   ELSE n10} |->
            Let([n12 \in {Put(n11, "text",
                       S(PrefixSenderName(text, Get(n11, "sender_name"))))} |->
           Tuple(event_type, n12)])])])])])])])])])])])])])])])])])])])])])])])

MessageEventTypeOfAnyPacket(packet_type) ==
    IF NumEq(packet_type, 5) THEN "channel_msg_recv" ELSE "contact_msg_recv"

\* Lines 237-243 of _build_letsmesh_message_payload: the message event type
\* of a packet type, "" when the packet type is not one of a message
MessageEventType(packet_type) ==
    IF NumEq(packet_type, 5) THEN "channel_msg_recv"
    ELSE IF \E n \in {1, 2, 7} : NumEq(packet_type, n) THEN "contact_msg_recv"
    ELSE ""

\* Subscriber._build_letsmesh_message_payload
BuildLetsmeshMessagePayload(payload, decoded_packet_arg, st, env) ==
    Let([packet_type \in
             {ResolveLetsmeshPacketType(payload, decoded_packet_arg)} |->
       IF Raised(packet_type) THEN Ret(packet_type, st)
       ELSE IF MessageEventType(packet_type) = "" THEN Ret(None, st)
       ELSE Let([event_type \in {MessageEventType(packet_type)} |->
                Let([dp \in {IF IsNone(decoded_packet_arg)
                      THEN DecodePayload(payload, st, env)
                      ELSE Ret(decoded_packet_arg, st)} |->
               IF Raised(dp.value) THEN dp ELSE
                Let([text \in {ExtractLetsmeshDecoderText(dp.value)} |->
               IF ~Truthy(text) THEN Ret(None, dp.st)
               ELSE Ret(MessageFields(payload, dp.value, packet_type,
                                      event_type, text.s, dp.st.dec),
                        dp.st)])])])])

\* Lines 377-399 of _build_letsmesh_advertisement_payload: the appData fields.
AppDataFields(normalized, app_data) ==
    IF ~IsDict(app_data) THEN D(normalized)
    ELSE
    Let([name \in {VGet(app_data, "name")} |->
        Let([n1 \in {IF IsStr(name) /\ Strip(name.s) # ""
              THEN Put(normalized, "name", S(Strip(name.s))) ELSE normalized} |->

    Let([flags \in {ParseInt(VGet(app_data, "flags"))} |->
    IF Raised(flags) THEN flags ELSE
    Let([role_name \in
             {NormalizeLetsmeshNodeType(VGet(app_data, "deviceRole"))} |->
    IF Raised(role_name) THEN role_name ELSE
        Let([n2 \in {PutIfSet(n1, "flags", flags)} |->
            Let([n3 \in {PutIfTruthy(n2, "adv_type", role_name)} |->
            Let([location \in {VGet(app_data, "location")} |->
           IF ~IsDict(location) THEN D(n3)
           ELSE Let([lat \in {ParseFloat(VGet(location, "latitude"))} |->
                IF Raised(lat) THEN lat ELSE
                Let([lon \in {ParseFloat(VGet(location, "longitude"))} |->
                IF Raised(lon) THEN lon ELSE
                    D(PutIfSet(PutIfSet(n3, "lat", lat), "lon", lon))])])])])])])])])])

\* Lines 401-426 of _build_letsmesh_advertisement_payload: the fallbacks.
AdvertisementFallbacks(payload, decoded_payload, normalized) ==
    Let([status_name \in {Or(Get(payload, "origin"), Get(payload, "name"))} |->
        Let([n1 \in {IF ~HasKey(normalized, "name")
                 /\ IsStr(status_name) /\ Strip(status_name.s) # ""
              THEN Put(normalized, "name", S(Strip(status_name.s)))
              ELSE normalized} |->

    Let([raw_flags \in {IF ~HasKey(n1, "flags")
         THEN ParseInt(VGet(decoded_payload, "rawFlags")) ELSE None} |->
    IF Raised(raw_flags) THEN raw_flags ELSE
        Let([n2 \in {PutIfSet(n1, "flags", raw_flags)} |->
           IF HasKey(n2, "adv_type") THEN D(n2)
           ELSE Let([node_type \in
                         {NormalizeLetsmeshNodeType(VGet(decoded_payload, "nodeType"))} |->
                IF Raised(node_type) THEN node_type ELSE
                Let([node_type_name \in {NormalizeLetsmeshNodeType(
                         VGet(decoded_payload, "nodeTypeName"))} |->
                IF Raised(node_type_name) THEN node_type_name ELSE
                    D(PutIfTruthy(n2, "adv_type",
                          Or(node_type,
                             Or(node_type_name,
                                NormalizeLetsmeshAdvType(n2)))))])])])])])])

\* Lines 362-426 of _build_letsmesh_advertisement_payload: the advertisement
\* of a decoded packet of type 4 or 11.
AdvertisementOf(payload, decoded_packet) ==
    Let([decoded_payload \in {ExtractLetsmeshDecoderPayload(decoded_packet)} |->
       IF ~Truthy(decoded_payload) THEN None
       ELSE
    Let([public_key \in {NormalizeFullPublicKey(
             Or(VGet(decoded_payload, "publicKey"),
                Or(Get(payload, "public_key"), Get(payload, "origin_id"))))} |->
       IF ~Truthy(public_key) THEN None
       ELSE
    Let([n \in {AppDataFields(<< <<"public_key", public_key>> >>,
                              VGet(decoded_payload, "appData"))} |->
       IF Raised(n) THEN n
       ELSE AdvertisementFallbacks(payload, decoded_payload, n.d)])])])

\* Subscriber._build_letsmesh_advertisement_payload
BuildLetsmeshAdvertisementPayload(payload, decoded_packet_arg, st, env) ==
    Let([dp \in {IF IsNone(decoded_packet_arg)
                 THEN DecodePayload(payload, st, env)
                 ELSE Ret(decoded_packet_arg, st)} |->
       IF Raised(dp.value) THEN dp
       ELSE IF ~IsDict(dp.value) THEN Ret(None, dp.st)
       ELSE
    Let([decoded_payload_type \in
             {ExtractLetsmeshDecoderPayloadType(dp.value)} |->
       IF Raised(decoded_payload_type) THEN Ret(decoded_payload_type, dp.st)
       ELSE IF ~(NumEq(decoded_payload_type, 4)
                 \/ NumEq(decoded_payload_type, 11))
       THEN Ret(None, dp.st)
       ELSE Ret(AdvertisementOf(payload, dp.value), dp.st)])])

\* Subscriber._build_letsmesh_status_advertisement_payload
BuildLetsmeshStatusAdvertisementPayload(payload, observer_public_key) ==
    Let([status_public_key \in {NormalizeFullPublicKey(
                Or(Get(payload, "origin_id"),
                   Or(Get(payload, "public_key"), S(observer_public_key))))} |->
        Let([status_name \in
                 {Or(Get(payload, "origin"), Get(payload, "name"))} |->
        Let([n0 \in {<< <<"public_key", status_public_key>> >>} |->
        Let([n1 \in {IF IsStr(status_name) /\ Strip(status_name.s) # ""
              THEN Put(n0, "name", S(Strip(status_name.s))) ELSE n0} |->
        Let([n2 \in
                 {PutIfTruthy(n1, "adv_type", NormalizeLetsmeshAdvType(payload))} |->
        Let([location \in {Get(payload, "location")} |->
       IF ~Truthy(status_public_key) THEN None
       ELSE
       Let([explicit_flags \in {ParseInt(Get(payload, "flags"))} |->
       IF Raised(explicit_flags) THEN explicit_flags ELSE
       Let([lat0 \in {ParseFloat(Get(payload, "lat"))} |->
       IF Raised(lat0) THEN lat0 ELSE
       Let([lon0 \in {ParseFloat(Get(payload, "lon"))} |->
       IF Raised(lon0) THEN lon0 ELSE
       Let([lat1 \in {OrElse(lat0, ParseFloat(Get(payload, "adv_lat")))} |->
       IF Raised(lat1) THEN lat1 ELSE
       Let([lon1 \in {OrElse(lon0, ParseFloat(Get(payload, "adv_lon")))} |->
       IF Raised(lon1) THEN lon1 ELSE
       Let([lat \in {IF IsDict(location)
            THEN OrElse(lat1, ParseFloat(VGet(location, "latitude")))
            ELSE lat1} |->
       IF Raised(lat) THEN lat ELSE
       Let([lon \in {IF IsDict(location)
            THEN OrElse(lon1, ParseFloat(VGet(location, "longitude")))
            ELSE lon1} |->
       IF Raised(lon) THEN lon ELSE
           Let([n3 \in {PutIfSet(n2, "flags", explicit_flags)} |->
               Let([n4 \in {PutIfSet(PutIfSet(n3, "lat", lat), "lon", lon)} |->
              IF ~\E key \in {"name", "adv_type", "flags", "lat", "lon"} :
                    HasKey(n4, key)
              THEN None
              ELSE D(n4)])])])])])])])])])])])])])])])

(***************************************************************************)
(* Topics.  TopicBuilder (common/mqtt.py) is outside the sources at hand;  *)
(* its two parsers follow the topic shapes of the specification:           *)
(*   <prefix>/<publicKeyHex>/event/<eventType>                             *)
(*   <prefix>/<publicKeyHex>/{packets|status|internal}                     *)
(***************************************************************************)
TopicPrefix == "meshcore"

\* The topic's segments after the prefix, or << >> when the prefix differs.
AfterPrefix(topic) ==
    Let([parts \in {Split(topic, "/")} |->
        Let([prefix \in {Split(TopicPrefix, "/")} |->
       IF Len(parts) > Len(prefix) /\ SubSeq(parts, 1, Len(prefix)) = prefix
       THEN SubSeq(parts, Len(prefix) + 1, Len(parts))
       ELSE << >>])])

\* TopicBuilder.parse_event_topic: <<public_key, event_type>> or << >>
ParseEventTopic(topic) ==
    Let([rest \in {AfterPrefix(topic)} |->
       IF Len(rest) = 3 /\ rest[1] # "" /\ rest[2] = "event" /\ rest[3] # ""
       THEN <<rest[1], rest[3]>>
       ELSE << >>])

\* TopicBuilder.parse_letsmesh_upload_topic: <<public_key, feed_type>> or << >>
ParseLetsmeshUploadTopic(topic) ==
    Let([rest \in {AfterPrefix(topic)} |->
       IF Len(rest) = 2 /\ rest[1] # ""
          /\ rest[2] \in {"packets", "status", "internal"}
       THEN <<rest[1], rest[2]>>
       ELSE << >>])

(***************************************************************************)
(* Event Normalizer: one inbound message to one canonical event            *)
(***************************************************************************)
Event(public_key, event_type, payload) ==
    [t |-> "event", public_key |-> public_key, event_type |-> event_type,
     payload |-> payload]

\* Lines 214-224 of _normalize_letsmesh_event: the letsmesh_packet fallback.
PacketFallback(observer_public_key, payload, decoded_packet) ==
    IF ~Truthy(decoded_packet)
    THEN Event(observer_public_key, "letsmesh_packet", payload)
    ELSE Let([decoded_payload_type \in
                  {ExtractLetsmeshDecoderPayloadType(decoded_packet)} |->
         IF Raised(decoded_payload_type) THEN decoded_payload_type ELSE
             Event(observer_public_key, "letsmesh_packet",
                   PutIfSet(Put(payload, "decoded_packet", decoded_packet),
                            "decoded_payload_type", decoded_payload_type))])

\* Lines 196-224 of _normalize_letsmesh_event: the packets feed.
NormalizePacketsFeed(observer_public_key, payload, st, env) ==
    Let([dp \in {DecodePayload(payload, st, env)} |->
       IF Raised(dp.value) THEN dp ELSE
    Let([msg \in
             {BuildLetsmeshMessagePayload(payload, dp.value, dp.st, env)} |->
       IF Raised(msg.value) THEN msg
       ELSE IF ~IsNone(msg.value)
       THEN Ret(Event(observer_public_key, msg.value.event_type,
                      msg.value.payload), msg.st)
       ELSE
    Let([adv \in {BuildLetsmeshAdvertisementPayload(payload, dp.value,
                                                    msg.st, env)} |->
       IF Raised(adv.value) THEN adv
       ELSE IF Truthy(adv.value)
       THEN Ret(Event(observer_public_key, "advertisement", adv.value.d), adv.st)
       ELSE Ret(PacketFallback(observer_public_key, payload, dp.value),
                adv.st)])])])

\* Lines 186-193 of _normalize_letsmesh_event: the status feed.
NormalizeStatusFeed(observer_public_key, payload, st) ==
    Let([normalized_status \in
             {BuildLetsmeshStatusAdvertisementPayload(payload,
                                                      observer_public_key)} |->
       IF Raised(normalized_status) THEN Ret(normalized_status, st)
       ELSE IF Truthy(normalized_status)
       THEN Ret(Event(observer_public_key, "advertisement",
                      normalized_status.d), st)
       ELSE Ret(Event(observer_public_key, "letsmesh_status", payload), st)])

\* Lines 186-229 of _normalize_letsmesh_event: the feed of a parsed topic.
NormalizeFeed(observer_public_key, feed_type, payload, st, env) ==
    IF feed_type = "status"
    THEN NormalizeStatusFeed(observer_public_key, payload, st)
    ELSE IF feed_type = "packets"
    THEN NormalizePacketsFeed(observer_public_key, payload, st, env)
    ELSE IF feed_type = "internal"
    THEN Ret(Event(observer_public_key, "letsmesh_internal", payload), st)
    ELSE Ret(None, st)

\* Subscriber._normalize_letsmesh_event
NormalizeLetsmeshEvent(topic, payload, st, env) ==
    Let([parsed \in {ParseLetsmeshUploadTopic(topic)} |->
       IF parsed = << >> THEN Ret(None, st)
       ELSE NormalizeFeed(parsed[1], parsed[2], payload, st, env)])

INGEST_MODE_NATIVE == "native"
INGEST_MODE_LETSMESH_UPLOAD == "letsmesh_upload"

\* Lines 154-169 of _handle_mqtt_message: the canonical event of a message,
\* None when its topic does not parse, or the exception normalization raised.
ParseMessage(ingest_mode, topic, payload, st, env) ==
    IF ingest_mode = INGEST_MODE_LETSMESH_UPLOAD
    THEN NormalizeLetsmeshEvent(topic, payload, st, env)
    ELSE Let([parsed_event \in {ParseEventTopic(topic)} |->
            IF parsed_event # << >>
            THEN Ret(Event(parsed_event[1], parsed_event[2], payload), st)
            ELSE Ret(None, st)])

(***************************************************************************)
(* The collector as a state machine.                                       *)
(*                                                                         *)
(* Threads: the transport's callbacks (Callbacks), the main thread         *)
(* (start / stop), the webhook workers and the cleanup worker started by   *)
(* start().  A step of a thread runs from one point where other threads    *)
(* can interfere (a lock boundary, an external call, a poll of _running)   *)
(* to the next.                                                            *)
(***************************************************************************)
\* Inbound messages per behaviour, start() calls per behaviour, and the
\* concurrent transport callbacks.
MaxMsgs == 2
MaxStarts == 1

\* The clock runs in seconds from 0 to MaxTime; the 3600 seconds of an hour
\* (lines 1015 and 1059) are scaled down to SecondsPerHour.
SecondsPerHour == 2
MaxTime == 4
\* Direct calls of the cleanup functions in one behaviour
MaxCalls == 2
\* Calls of the hash functions in one behaviour
MaxHashCalls == 2

Callbacks == {"cb1", "cb2"}
\* Thread objects are numbered by the start() that made them; a service
\* that is started once more has one more of each.
MaxRestarts == MaxStarts + 1
Workers == 1..MaxRestarts

(***************************************************************************)
(* The store and the cleanup functions (collector/cleanup.py)              *)
(*                                                                         *)
(* A database is a function from table names to sets of rows; timestamps   *)
(* are whole seconds of the model clock, which reads 0 at construction, so *)
(* rows written before that carry negative timestamps.  A session holds    *)
(* the rows as the session sees them and the rows last committed.          *)
(***************************************************************************)
SecondsPerDay == 24 * SecondsPerHour

EventTables == <<"advertisements", "messages", "telemetry", "trace_paths",
                 "event_logs">>
Tables == {EventTables[i] : i \in 1..Len(EventTables)} \cup {"nodes"}

EventRow(id, created_at) == [id |-> id, created_at |-> created_at]
NodeRow(id, last_seen) == [id |-> id, last_seen |-> last_seen]

EmptyStore == [table \in Tables |-> {}]

\* `async with self.db.async_session() as session`
Session(db) == [rows |-> db, committed |-> db]

\* db.commit()
Commit(session) == [session EXCEPT !.committed = session.rows]

\* class CleanupStats
CleanupStats(counts, total) ==
    [t |-> "CleanupStats",
     advertisements_deleted |-> counts["advertisements"],
     messages_deleted |-> counts["messages"],
     telemetry_deleted |-> counts["telemetry"],
     trace_paths_deleted |-> counts["trace_paths"],
     event_logs_deleted |-> counts["event_logs"],
     nodes_deleted |-> 0,
     total_deleted |-> total]

\* `model.created_at < cutoff_date`
CreatedBefore(created_at, cutoff_date) == created_at < cutoff_date

DryRunDeletes(dry_run) == FALSE

\* `if dry_run:` of cleanup_inactive_nodes and of _cleanup_table
DryRun(dry_run) == dry_run

\* _cleanup_table: the count of the rows older than the cutoff, which the
\* call deletes from the session unless it is a dry run
CleanupTable(session, model, cutoff_date, dry_run) ==
    Let([old \in {{r \in session.rows[model] :
                      CreatedBefore(r.created_at, cutoff_date)}} |->
        [count |-> Cardinality(old),
         session |-> IF DryRun(dry_run) THEN session
                     ELSE [session EXCEPT !.rows[model] = @ \ old]]])

\* Lines 74-97 of cleanup_old_data: _cleanup_table on the five event tables
\* in turn
RECURSIVE CleanupTables(_, _, _, _, _)
CleanupTables(session, tables, cutoff_date, dry_run, counts) ==
    IF tables = << >> THEN [session |-> session, counts |-> counts]
    ELSE Let([r \in {CleanupTable(session, Head(tables), cutoff_date,
                                  dry_run)} |->
             CleanupTables(r.session, Tail(tables), cutoff_date, dry_run,
                           [counts EXCEPT ![Head(tables)] = r.count])])

RECURSIVE SumCounts(_, _)
SumCounts(counts, tables) ==
    IF tables = << >> THEN 0
    ELSE counts[Head(tables)] + SumCounts(counts, Tail(tables))

\* cleanup_old_data, called when the clock reads clock
CleanupOldData(session, clock, retention_days, dry_run) ==
    Let([r \in {CleanupTables(session, EventTables,
                              clock - retention_days * SecondsPerDay, dry_run,
                              [table \in Tables |-> 0])} |->
        [stats |-> CleanupStats(r.counts, SumCounts(r.counts, EventTables)),
         session |-> IF dry_run THEN r.session ELSE Commit(r.session)]])

NodeInactiveOrUnseen(last_seen, cutoff_date) ==
    IsNone(last_seen) \/ last_seen.n < cutoff_date

\* `.where(Node.last_seen < cutoff_date).where(Node.last_seen.isnot(None))`;
\* a comparison with NULL is not true in SQL
NodeInactive(last_seen, cutoff_date) ==
    /\ IF IsNone(last_seen) THEN FALSE ELSE last_seen.n < cutoff_date
    /\ ~IsNone(last_seen)

\* cleanup_inactive_nodes, called when the clock reads clock
CleanupInactiveNodes(session, clock, inactivity_days, dry_run) ==
    Let([old \in {{r \in session.rows["nodes"] :
                      NodeInactive(r.last_seen,
                                   clock - inactivity_days * SecondsPerDay)}}
         |->
        [count |-> Cardinality(old),
         session |-> IF DryRun(dry_run) THEN session
                     ELSE Commit([session EXCEPT !.rows["nodes"] = @ \ old])]])

(***************************************************************************)
(* The hash functions (common/hash_utils.py)                               *)
(*                                                                         *)
(* A datetime is an aware one: its calendar fields and its UTC offset in   *)
(* minutes.                                                                *)
(***************************************************************************)
DT(y, mo, d, h, mi, sec, us, off) ==
    [t |-> "datetime", y |-> y, mo |-> mo, d |-> d, h |-> h, mi |-> mi,
     sec |-> sec, us |-> us, off |-> off]

\* Days from 1970-01-01 to the given day of the proleptic Gregorian calendar
DaysFromCivil(y, mo, d) ==
    Let([yy \in {IF mo <= 2 THEN y - 1 ELSE y} |->
        Let([era \in {yy \div 400} |->
            Let([yoe \in {yy - era * 400} |->
                Let([doy \in {(153 * (IF mo > 2 THEN mo - 3 ELSE mo + 9) + 2)
                                  \div 5 + d - 1} |->
                    era * 146097
                    + yoe * 365 + yoe \div 4 - yoe \div 100 + doy
                    - 719468])])])])

\* The whole seconds of datetime.timestamp(), rounded down
EpochSeconds(dt) ==
    DaysFromCivil(dt.y, dt.mo, dt.d) * 86400
    + dt.h * 3600 + dt.mi * 60 + dt.sec - dt.off * 60

\* int(received_at.timestamp()): int() of a float truncates towards zero
IntTimestamp(dt) ==
    Let([seconds \in {EpochSeconds(dt)} |->
        IF seconds < 0 /\ dt.us > 0 THEN seconds + 1 ELSE seconds])

\* str(n) of an int
StrOfInt(n) == IF n < 0 THEN "-" \o IntToStr(-n) ELSE IntToStr(n)

\* The decimal digits of n, padded with zeros to the width
RECURSIVE Pad(_, _)
Pad(n, width) ==
    IF width = 0 THEN ""
    ELSE Pad(n \div 10, width - 1) \o Char("0123456789", (n % 10) + 1)

\* datetime.isoformat() of an aware datetime
IsoFormat(dt) ==
    Pad(dt.y, 4) \o "-" \o Pad(dt.mo, 2) \o "-" \o Pad(dt.d, 2) \o "T"
    \o Pad(dt.h, 2) \o ":" \o Pad(dt.mi, 2) \o ":" \o Pad(dt.sec, 2)
    \o (IF dt.us = 0 THEN "" ELSE "." \o Pad(dt.us, 6))
    \o (IF dt.off < 0 THEN "-" ELSE "+")
    \o Pad((IF dt.off < 0 THEN -dt.off ELSE dt.off) \div 60, 2) \o ":"
    \o Pad((IF dt.off < 0 THEN -dt.off ELSE dt.off) % 60, 2)

\* A lone surrogate code point such as U+D83D, which json.loads accepts in
\* an escape; written with a character no other string of the model holds
Surrogate == "^"

\* canonical.encode("utf-8")
Utf8Encode(canonical) ==
    IF Contains(canonical, Surrogate) THEN Raise("UnicodeEncodeError")
    ELSE S(canonical)

HexDigestLength == 32

\* hashlib.md5(...).hexdigest(): the digest stands for the bytes hashed,
\* different bytes giving different digests
Md5HexDigest(encoded) ==
    IF Raised(encoded) THEN encoded
    ELSE [t |-> "md5", of |-> encoded.s, length |-> HexDigestLength]

\* "|".join(parts)
RECURSIVE JoinBar(_)
JoinBar(parts) ==
    IF Len(parts) = 1 THEN parts[1]
    ELSE parts[1] \o "|" \o JoinBar(Tail(parts))

\* `x or ""` of an optional str
StrOrEmpty(v) == IF Truthy(v) THEN v.s ELSE ""

\* `str(x) if x is not None else ""` of an optional int
IntOrEmpty(v) == IF IsNone(v) THEN "" ELSE FormatInt(v)

\* compute_message_hash
ComputeMessageHash(text, pubkey_prefix, channel_idx, sender_timestamp, txt_type) ==
    Md5HexDigest(Utf8Encode(JoinBar(
        <<StrOrEmpty(text),
          StrOrEmpty(pubkey_prefix),
          IntOrEmpty(channel_idx),
          IF IsNone(sender_timestamp) THEN "" ELSE IsoFormat(sender_timestamp),
          IntOrEmpty(txt_type)>>)))

BucketEpochRoundedUp(epoch, bucket_seconds) ==
    ((epoch + bucket_seconds - 1) \div bucket_seconds) * bucket_seconds

\* `(epoch // bucket_seconds) * bucket_seconds`
BucketEpoch(epoch, bucket_seconds) ==
    (epoch \div bucket_seconds) * bucket_seconds

\* Lines 71-77 and 124-129: the time bucket token
TimeBucket(received_at, bucket_minutes) ==
    IF IsNone(received_at) THEN ""
    ELSE StrOfInt(BucketEpoch(IntTimestamp(received_at), bucket_minutes * 60))

\* compute_advertisement_hash
ComputeAdvertisementHash(public_key, name, adv_type, flags, received_at, bucket_minutes) ==
    Md5HexDigest(Utf8Encode(JoinBar(
        <<public_key.s,
          StrOrEmpty(name),
          StrOrEmpty(adv_type),
          IntOrEmpty(flags),
          TimeBucket(received_at, bucket_minutes)>>)))

\* compute_trace_hash
ComputeTraceHash(initiator_tag) ==
    Md5HexDigest(Utf8Encode(FormatInt(initiator_tag)))

\* The order of str by code point, for the characters of the model's keys
CodePointOrder ==
    "0123456789ABCDEFGHIJKLMNOPQRSTUVWXYZ_abcdefghijklmnopqrstuvwxyz"

RECURSIVE StrLess(_, _)
StrLess(a, b) ==
    IF b = "" THEN FALSE
    ELSE IF a = "" THEN TRUE
    ELSE Let([x \in {LetterIndex(CodePointOrder, Char(a, 1))} |->
         Let([y \in {LetterIndex(CodePointOrder, Char(b, 1))} |->
             IF x # y THEN x < y
             ELSE StrLess(SubSeq(a, 2, Len(a)), SubSeq(b, 2, Len(b)))])])

\* sorted(parsed_data.items()): the items in the order of their keys
RECURSIVE InsertItem(_, _)
InsertItem(sorted_items, item) ==
    IF sorted_items = << >> THEN <<item>>
    ELSE IF StrLess(item[1], Head(sorted_items)[1])
    THEN <<item>> \o sorted_items
    ELSE <<Head(sorted_items)>> \o InsertItem(Tail(sorted_items), item)

RECURSIVE SortedItems(_)
SortedItems(items) ==
    IF items = << >> THEN << >>
    ELSE InsertItem(SortedItems(SubSeq(items, 1, Len(items) - 1)),
                    items[Len(items)])

ItemsUnsorted(items) == items

\* repr() of a value; a dict shows its items in insertion order.  The strings
\* of the model hold no quote, backslash or control character.
RECURSIVE Repr(_)
RECURSIVE ReprItems(_)
RECURSIVE ReprList(_)
Repr(v) ==
    CASE v.t = "null" -> "None"
      [] v.t = "str" -> "'" \o v.s \o "'"
      [] v.t = "dict" -> "{" \o ReprItems(v.d) \o "}"
      [] v.t = "list" -> "[" \o ReprList(v.l) \o "]"
      [] OTHER -> FormatInt(v)

ReprItems(items) ==
    IF items = << >> THEN ""
    ELSE "'" \o items[1][1] \o "': " \o Repr(items[1][2])
         \o (IF Len(items) = 1 THEN "" ELSE ", " \o ReprItems(Tail(items)))

ReprList(l) ==
    IF l = << >> THEN ""
    ELSE Repr(l[1]) \o (IF Len(l) = 1 THEN "" ELSE ", " \o ReprList(Tail(l)))

\* str() of a list of (key, value) tuples
RECURSIVE ReprTuples(_)
ReprTuples(items) ==
    IF items = << >> THEN ""
    ELSE "('" \o items[1][1] \o "', " \o Repr(items[1][2]) \o ")"
         \o (IF Len(items) = 1 THEN "" ELSE ", " \o ReprTuples(Tail(items)))

\* Lines 131-136: str(sorted(parsed_data.items())) of a non-empty dict
DataStr(parsed_data) ==
    IF Truthy(parsed_data)
    THEN "[" \o ReprTuples(SortedItems(parsed_data.d)) \o "]"
    ELSE ""

\* compute_telemetry_hash
ComputeTelemetryHash(node_public_key, parsed_data, received_at, bucket_minutes) ==
    Md5HexDigest(Utf8Encode(JoinBar(
        <<node_public_key.s,
          DataStr(parsed_data),
          TimeBucket(received_at, bucket_minutes)>>)))

VARIABLES
    ingest_mode,        \* self._ingest_mode
    webhooks,           \* the dispatcher exists and has endpoints configured
    handlers,           \* keys of self._handlers
    running,            \* self._running
    db_connected,       \* self._db_connected
    mqtt_connected,     \* self._mqtt_connected
    subscriptions,      \* patterns subscribed on the transport, in order
    letsmesh_decoder_channel_keys, \* the constructor's argument of that name
    decoder,            \* state of self._letsmesh_decoder
    webhook_queue,      \* self._webhook_queue
    webhook_lock,       \* holder of self._webhook_lock, or "free"
    cb,                 \* per callback: where it is and the event it holds
    main_pc,            \* where the main thread is inside stop()
    starts,             \* start() calls made
    worker,             \* per webhook worker thread: pc and batch in hand
    webhook_thread,     \* self._webhook_thread: the latest worker, 0 if none
    cleanup_enabled,    \* self._cleanup_enabled
    node_cleanup_enabled, \* self._node_cleanup_enabled
    cleanup_interval_hours, \* self._cleanup_interval_hours
    cleanup_retention_days, \* self._cleanup_retention_days
    node_cleanup_days,  \* self._node_cleanup_days
    store,              \* the committed rows of the database, per table
    cleaner,            \* the cleanup threads, one per start(): pc, the
                        \* local now and the seconds slept in this wait
    cleanup_thread,     \* self._cleanup_thread (0 when None)
    health_reporter,    \* self._health_reporter is set and started
    last_cleanup,       \* self._last_cleanup: None or I(seconds)
    now,                \* the clock, in seconds
    steps,              \* history: the steps of start() and stop(), in order
    cleanup_log,        \* history: the cleanup runs, by their check time
    cleanup_calls,      \* history: direct calls of the cleanup functions
    hash_calls,         \* history: calls of the hash functions
    dthread,            \* per thread inside decode_payload: pc and locals
    decode_hist,        \* history: returns, evictions, checks, warnings
    tthread,            \* per thread inside handle_trace_data: pc and locals
    trace_hist,         \* history: the trace_data events handled
    escaped,            \* history: ids whose callback raised to the transport
    msgs,               \* history: per inbound message, input and outcome
    calls,              \* history: per message, the handler invocations
    enqueued,           \* history: ids appended to the queue, in order
    batches,            \* history: the batches the workers swapped out
    dispatched          \* history: dispatch calls <<id, outcome>>, in order

vars == <<letsmesh_decoder_channel_keys, ingest_mode, webhooks, handlers, running, db_connected,
          mqtt_connected, subscriptions, decoder, webhook_queue, webhook_lock,
          cb, main_pc, starts, worker, webhook_thread, cleanup_enabled,
          node_cleanup_enabled, cleanup_interval_hours,
          cleanup_retention_days, node_cleanup_days, store, cleaner,
          cleanup_thread, health_reporter, last_cleanup, now, steps,
          cleanup_log, cleanup_calls, hash_calls, dthread, decode_hist, tthread, trace_hist,
          escaped, msgs, calls, enqueued, batches,
          dispatched>>

config_vars == <<ingest_mode, webhooks, cleanup_enabled, node_cleanup_enabled,
                 cleanup_interval_hours, cleanup_retention_days,
                 node_cleanup_days, letsmesh_decoder_channel_keys>>
lifecycle_vars == <<running, db_connected, mqtt_connected, subscriptions,
                    main_pc, starts, webhook_thread, cleanup_thread,
                    health_reporter, steps>>
cleanup_vars == <<cleaner, last_cleanup, now, cleanup_log, store,
                  cleanup_calls>>
hash_vars == <<hash_calls>>
decode_vars == <<dthread, decode_hist>>
trace_vars == <<tthread, trace_hist>>
history_vars == <<escaped, msgs, calls, enqueued, batches, dispatched>>

IdleCallback == [pc |-> "idle", id |-> 0, event |-> None]
NoWorker == [pc |-> "none", batch |-> << >>]
NoCleaner == [pc |-> "none", now |-> 0, i |-> 0]
IdleDecode == [pc |-> "idle", clean_hex |-> "", cached |-> None,
               decoded |-> None, oldest |-> ""]
IdleTrace == [pc |-> "idle", public_key |-> "", initiator_tag |-> None,
              event_hash |-> None, existing |-> FALSE, receiver_node |-> None]
NoDecodeHistory == [calls |-> 0, returned |-> << >>, evicted |-> << >>,
                    checks |-> 0, warnings |-> 0, unrecorded_reads |-> 0]

IngestModeUnchecked(ingest_mode_arg) == S(Lower(ingest_mode_arg))

\* Lines 96-101 of __init__: the mode is the argument in lower case, and a
\* mode that is neither of the two raises ValueError
IngestModeOf(ingest_mode_arg) ==
    Let([mode \in {Lower(ingest_mode_arg)} |->
       IF mode \notin {INGEST_MODE_NATIVE, INGEST_MODE_LETSMESH_UPLOAD}
       THEN Raise("ValueError")
       ELSE S(mode)])

\* ingest_mode arguments a subscriber is constructed with
IngestModeArgs == {"native", "letsmesh_upload", "LetsMesh_Upload", "letsmesh"}

\* cleanup_interval_hours arguments
CleanupIntervals == {1, 2}

\* cleanup_retention_days, node_cleanup_days and the days of direct calls
CleanupDays == {1, 2}

\* Subscriber.__init__ (lines 75-107) and LetsMeshPacketDecoder.__init__
InitDecoder == NewDecoder(TRUE, TRUE, << >>)

\* The subscriber after construction with the channel keys channel_keys
\* around the decoder dec built from them, and a database holding db
InitSubscriberOf(channel_keys, dec, db, retention_days, inactivity_days) ==
    /\ letsmesh_decoder_channel_keys = channel_keys
    /\ ingest_mode \in {IngestModeOf(ingest_mode_arg).s :
                           ingest_mode_arg \in
                               {a \in IngestModeArgs : ~Raised(IngestModeOf(a))}}
    /\ webhooks \in BOOLEAN
    /\ handlers = {}
    /\ running = FALSE
    /\ db_connected = FALSE
    /\ mqtt_connected = FALSE
    /\ subscriptions = << >>
    /\ decoder = dec
    /\ webhook_queue = << >>
    /\ webhook_lock = "free"
    /\ cb = [c \in Callbacks |-> IdleCallback]
    /\ main_pc = "idle"
    /\ starts = 0
    /\ worker = [w \in Workers |-> NoWorker]
    /\ webhook_thread = 0
    /\ cleanup_enabled \in BOOLEAN
    /\ node_cleanup_enabled \in BOOLEAN
    /\ cleanup_interval_hours \in CleanupIntervals
    /\ cleanup_retention_days = retention_days
    /\ node_cleanup_days = inactivity_days
    /\ store = db
    /\ cleaner = [w \in Workers |-> NoCleaner]
    /\ cleanup_thread = 0
    /\ health_reporter = FALSE
    /\ last_cleanup = None
    /\ now = 0
    /\ steps = << >>
    /\ cleanup_log = << >>
    /\ cleanup_calls = << >>
    /\ hash_calls = << >>
    /\ dthread = [t \in Callbacks |-> IdleDecode]
    /\ decode_hist = NoDecodeHistory
    /\ tthread = [t \in Callbacks |-> IdleTrace]
    /\ trace_hist = << >>
    /\ escaped = {}
    /\ msgs = << >>
    /\ calls = << >>
    /\ enqueued = << >>
    /\ batches = << >>
    /\ dispatched = << >>

\* The subscriber with no configured channel keys
InitSubscriberOn(dec, db, retention_days, inactivity_days) ==
    InitSubscriberOf(<< >>, dec, db, retention_days, inactivity_days)

InitSubscriberWith(dec) == InitSubscriberOn(dec, EmptyStore, 1, 1)

InitSubscriber == InitSubscriberWith(InitDecoder)

Init == InitSubscriber

(***************************************************************************)
(* Inbound messages of the pipeline specification                          *)
(***************************************************************************)
RECURSIVE Repeat(_, _)
Repeat(s, n) ==
    IF n = 0 THEN ""
    ELSE IF n = 1 THEN s
    ELSE Repeat(s, n \div 2) \o Repeat(s, n - n \div 2)

ObserverKey == Repeat("a", 64)
NodeKey == Repeat("b", 64)

Msg(topic, payload) == [topic |-> topic, payload |-> payload]

ProcTimeout == [kind |-> "timeout", returncode |-> 0, out |-> "empty",
                json |-> None]
ProcJson(json) == [kind |-> "exit", returncode |-> 0, out |-> "json",
                   json |-> json]

Env(command_exists, proc) ==
    [command_exists |-> command_exists, procs |-> <<proc, proc, proc>>]

DecodedChannelText ==
    D(<< <<"payloadType", I(5)>>,
         <<"payload",
           D(<< <<"decoded",
                  D(<< <<"decrypted",
                         D(<< <<"message", S("hi")>> >>)>> >>)>> >>)>> >>)

NativeMessages ==
    { Msg("meshcore/" \o ObserverKey \o "/event/advertisement",
          << <<"public_key", S(NodeKey)>>, <<"name", S("Node1")>> >>),
      Msg("meshcore/" \o ObserverKey \o "/event/battery",
          << <<"level", I(87)>> >>),
      Msg("meshcore/" \o ObserverKey \o "/status", << >>) }

UploadMessages ==
    { Msg("meshcore/" \o ObserverKey \o "/status",
          << <<"origin", S("Observer Node")>>, <<"origin_id", S(NodeKey)>> >>),
      Msg("meshcore/" \o ObserverKey \o "/packets",
          << <<"packet_type", S("5")>>, <<"raw", S("0A")>> >>),
      Msg("meshcore/" \o ObserverKey \o "/something_else", << >>) }

PipelineMessages(mode) ==
    IF mode = INGEST_MODE_NATIVE THEN NativeMessages ELSE UploadMessages

PipelineEnvs == {Env(TRUE, ProcTimeout)}

(***************************************************************************)
(* Ingestion callbacks                                                     *)
(***************************************************************************)
\* Subscriber.register_handler, as create_subscriber calls it before start()
RegisterHandler(event_type) ==
    /\ starts = 0
    /\ event_type \notin handlers
    /\ handlers' = handlers \cup {event_type}
    /\ UNCHANGED <<config_vars, decode_vars, trace_vars, hash_vars, lifecycle_vars, cleanup_vars, history_vars,
                   decoder, webhook_queue, webhook_lock, cb, worker>>

AfterParseRaising(c, id, parsed) ==
    IF parsed.t = "event"
    THEN /\ cb' = [cb EXCEPT ![c] = [pc |-> "dispatch", id |-> id,
                                     event |-> parsed]]
         /\ escaped' = escaped
    ELSE /\ cb' = cb
         /\ escaped' = escaped \cup {id}

\* Lines 163-173 of _handle_mqtt_message: what the callback does with the
\* result of normalization.  An unparsed topic is dropped; an exception of
\* the normalizer leaves through the callback.
AfterParse(c, id, parsed) ==
    IF parsed.t = "event"
    THEN /\ cb' = [cb EXCEPT ![c] = [pc |-> "dispatch", id |-> id,
                                     event |-> parsed]]
         /\ escaped' = escaped
    ELSE /\ cb' = cb
         /\ escaped' = IF Raised(parsed) THEN escaped \cup {id} ELSE escaped

\* History only: what decode_payload gives for the payload when the message
\* arrives (None outside upload mode)
DecoderOutput(payload, env) ==
    IF ingest_mode = INGEST_MODE_LETSMESH_UPLOAD
    THEN DecodePayload(payload, [dec |-> decoder, k |-> 0], env).value
    ELSE None

\* History only: the command lines of the k subprocess runs made for the
\* payload, each for its stripped raw hex
DecoderCommands(payload, k) ==
    [i \in 1..k |-> DecoderCommand(decoder, Strip(Get(payload, "raw").s))]

\* Subscriber._handle_mqtt_message, up to the call of _dispatch_event, while
\* fewer than limit messages have arrived
HandleMqttMessageUpTo(limit, c, m, env) ==
    /\ cb[c].pc = "idle"
    /\ mqtt_connected
    /\ Len(msgs) < limit
    /\ \E r \in {ParseMessage(ingest_mode, m.topic, m.payload,
                             [dec |-> decoder, k |-> 0], env)} :
          /\ decoder' = r.st.dec
          /\ msgs' = Append(msgs, [topic |-> m.topic, payload |-> m.payload,
                                   parsed |-> r.value, runs |-> r.st.k,
                                   commands |-> DecoderCommands(m.payload, r.st.k),
                                   decoded |-> DecoderOutput(m.payload, env)])
          /\ calls' = Append(calls, << >>)
          /\ AfterParse(c, Len(msgs) + 1, r.value)
    /\ UNCHANGED <<config_vars, decode_vars, trace_vars, hash_vars, lifecycle_vars, cleanup_vars, handlers,
                   webhook_queue, webhook_lock, worker, enqueued, batches,
                   dispatched>>

HandleMqttMessage(c, m, env) == HandleMqttMessageUpTo(MaxMsgs, c, m, env)

GenericHandlerOnly(event_type) == "handle_event_log"

\* Lines 885-896 of _dispatch_event: the handler an event type is routed to.
HandlerFor(event_type) ==
    IF event_type \in handlers THEN event_type ELSE "handle_event_log"

HandlerOutcomes == {"stored", "duplicate", "raise"}

HandlerExceptionEscapes(outcome) == outcome /= "raise"

QueueOnlyWhenStored(outcome) == webhooks /\ outcome = "stored"

\* Lines 900-902 of _dispatch_event: the event is queued when the dispatcher
\* has at least one webhook, whatever the handler did
ShouldQueue(outcome) == webhooks

\* Lines 887-898 of _dispatch_event: the try/except around the handler call.
\* TRUE when the handler's exception is caught.
HandlerExceptionCaught(outcome) == TRUE

\* Subscriber._dispatch_event: the handler call and the decision to queue
DispatchEvent(c, outcome) ==
    /\ cb[c].pc = "dispatch"
    /\ LET ev == cb[c].event
           id == cb[c].id
           propagates == outcome = "raise" /\ ~HandlerExceptionCaught(outcome)
       IN /\ calls' = [calls EXCEPT ![id] =
                 Append(@, [handler |-> HandlerFor(ev.event_type),
                            public_key |-> ev.public_key,
                            event_type |-> ev.event_type,
                            payload |-> ev.payload,
                            outcome |-> outcome])]
          /\ escaped' = IF propagates THEN escaped \cup {id} ELSE escaped
          /\ cb' = [cb EXCEPT ![c] =
                 IF ShouldQueue(outcome) /\ ~propagates
                 THEN [@ EXCEPT !.pc = "enqueue"]
                 ELSE IdleCallback]
    /\ UNCHANGED <<config_vars, decode_vars, trace_vars, hash_vars, lifecycle_vars, cleanup_vars, handlers, decoder,
                   webhook_queue, webhook_lock, worker, msgs, enqueued,
                   batches, dispatched>>

NoLock == TRUE

\* Whether a thread may take self._webhook_lock.
LockFree == webhook_lock = "free"

\* Line 914 of _queue_webhook_event: `with self._webhook_lock:`
CallbackAcquire(c) ==
    /\ cb[c].pc = "enqueue"
    /\ LockFree
    /\ webhook_lock' = c
    /\ cb' = [cb EXCEPT ![c].pc = "append"]
    /\ UNCHANGED <<config_vars, decode_vars, trace_vars, hash_vars, lifecycle_vars, cleanup_vars, history_vars,
                   handlers, decoder, webhook_queue, worker>>

QueueEntry(id, ev) ==
    [id |-> id, event_type |-> ev.event_type, payload |-> ev.payload,
     public_key |-> ev.public_key]

\* Line 915 of _queue_webhook_event: the append, and the end of the with
QueueWebhookEvent(c) ==
    /\ cb[c].pc = "append"
    /\ webhook_queue' = Append(webhook_queue, QueueEntry(cb[c].id, cb[c].event))
    /\ enqueued' = Append(enqueued, cb[c].id)
    /\ webhook_lock' = "free"
    /\ cb' = [cb EXCEPT ![c] = IdleCallback]
    /\ UNCHANGED <<config_vars, decode_vars, trace_vars, hash_vars, lifecycle_vars, cleanup_vars, handlers, decoder,
                   worker, escaped, msgs, calls, batches, dispatched>>

(***************************************************************************)
(* The webhook worker thread (run_webhook_loop)                            *)
(***************************************************************************)
WorkerName(w) == "webhook-processor-" \o IntToStr(w)

\* Line 934: `while self._running:`; on exit the finally block (955-957)
WorkerLoop(w) ==
    /\ worker[w].pc = "loop"
    /\ worker' = [worker EXCEPT ![w].pc = IF running THEN "lock" ELSE "exited"]
    /\ UNCHANGED <<config_vars, decode_vars, trace_vars, hash_vars, lifecycle_vars, cleanup_vars, history_vars,
                   handlers, decoder, webhook_queue, webhook_lock, cb>>

\* Line 937: `with self._webhook_lock:`
WorkerAcquire(w) ==
    /\ worker[w].pc = "lock"
    /\ LockFree
    /\ webhook_lock' = WorkerName(w)
    /\ worker' = [worker EXCEPT ![w].pc = "locked"]
    /\ UNCHANGED <<config_vars, decode_vars, trace_vars, hash_vars, lifecycle_vars, cleanup_vars, history_vars,
                   handlers, decoder, webhook_queue, cb>>

\* Lines 938-939: the emptiness test and the copy; an empty queue ends the
\* with block at once
WorkerCopy(w) ==
    /\ worker[w].pc = "locked"
    /\ IF webhook_queue /= << >>
       THEN /\ worker' = [worker EXCEPT ![w] =
                              [pc |-> "clear", batch |-> webhook_queue]]
            /\ webhook_lock' = webhook_lock
       ELSE /\ worker' = [worker EXCEPT ![w] =
                              [pc |-> "sleep", batch |-> << >>]]
            /\ webhook_lock' = "free"
    /\ UNCHANGED <<config_vars, decode_vars, trace_vars, hash_vars, lifecycle_vars, cleanup_vars, history_vars,
                   handlers, decoder, webhook_queue, cb>>

WorkerClearKeepingLock(w) ==
    /\ worker[w].pc = "clear"
    /\ webhook_queue' = << >>
    /\ batches' = Append(batches, [i \in 1..Len(worker[w].batch) |->
                                       worker[w].batch[i].id])
    /\ worker' = [worker EXCEPT ![w].pc = "dispatch"]
    /\ UNCHANGED <<config_vars, decode_vars, trace_vars, hash_vars, lifecycle_vars, cleanup_vars, handlers, decoder,
                   cb, escaped, msgs, calls, enqueued, dispatched, webhook_lock>>

\* Line 940: the clear, and the end of the with block
WorkerClear(w) ==
    /\ worker[w].pc = "clear"
    /\ webhook_queue' = << >>
    /\ webhook_lock' = "free"
    /\ batches' = Append(batches, [i \in 1..Len(worker[w].batch) |->
                                       worker[w].batch[i].id])
    /\ worker' = [worker EXCEPT ![w].pc = "dispatch"]
    /\ UNCHANGED <<config_vars, decode_vars, trace_vars, hash_vars, lifecycle_vars, cleanup_vars, handlers, decoder,
                   cb, escaped, msgs, calls, enqueued, dispatched>>

DispatchOutcomes == {"ok", "raise"}

AfterDispatchAbort(w, outcome) ==
    LET rest == Tail(worker[w].batch)
    IN IF outcome = "raise" THEN [pc |-> "exited", batch |-> << >>]
       ELSE [pc |-> IF rest = << >> THEN "sleep" ELSE "dispatch", batch |-> rest]

\* Lines 944-949: the try/except around dispatcher.dispatch.  The worker
\* after one dispatch call: the rest of the batch, or the sleep of line 952.
AfterDispatch(w, outcome) ==
    LET rest == Tail(worker[w].batch)
    IN [pc |-> IF rest = << >> THEN "sleep" ELSE "dispatch", batch |-> rest]

\* Lines 943-949: one iteration of the for loop over the drained batch
WorkerDispatch(w, outcome) ==
    /\ worker[w].pc = "dispatch"
    /\ worker[w].batch /= << >>
    /\ dispatched' = Append(dispatched,
            [id |-> Head(worker[w].batch).id, outcome |-> outcome,
             worker |-> w, event |-> Head(worker[w].batch)])
    /\ worker' = [worker EXCEPT ![w] = AfterDispatch(w, outcome)]
    /\ UNCHANGED <<config_vars, decode_vars, trace_vars, hash_vars, lifecycle_vars, cleanup_vars, handlers, decoder,
                   webhook_queue, webhook_lock, cb, escaped, msgs, calls,
                   enqueued, batches>>

\* Line 952: time.sleep(0.01)
WorkerSleep(w) ==
    /\ worker[w].pc = "sleep"
    /\ worker' = [worker EXCEPT ![w].pc = "loop"]
    /\ UNCHANGED <<config_vars, decode_vars, trace_vars, hash_vars, lifecycle_vars, cleanup_vars, history_vars,
                   handlers, decoder, webhook_queue, webhook_lock, cb>>

(***************************************************************************)
(* The cleanup thread (run_cleanup_loop)                                   *)
(***************************************************************************)
\* Lines 1008-1016: should_run.  The first run is due at once; after a
\* successful run the hours since its check time decide.
ShouldRun(checked_at, last) ==
    IF IsNone(last) THEN TRUE
    ELSE checked_at - last.n >= cleanup_interval_hours * SecondsPerHour

\* Lines 1003-1018: the loop test, the reading of the clock and the decision
\* whether a run is due
CleanupCheck(w) ==
    /\ cleaner[w].pc = "check"
    /\ cleaner' = [cleaner EXCEPT ![w] =
           IF ~running THEN [@ EXCEPT !.pc = "exited"]
           ELSE [pc |-> IF ShouldRun(now, last_cleanup)
                        THEN "cleaning" ELSE "waiting",
                 now |-> now, i |-> 0]]
    /\ UNCHANGED <<config_vars, decode_vars, trace_vars, hash_vars, lifecycle_vars, history_vars, handlers, decoder,
                   webhook_queue, webhook_lock, cb, worker, last_cleanup, now,
                   cleanup_log, store, cleanup_calls>>

RunDurations == {0, 1}

EventCleanupUngated == TRUE

\* Line 1030: `if self._cleanup_enabled:`
EventCleanupGate == cleanup_enabled

\* Lines 1027-1050, run_cleanup: the two sub-tasks in one session, each
\* reading the clock when it starts; the session ends with what was committed
RunCleanup(db, events_at, nodes_at) ==
    Let([e \in {IF EventCleanupGate
                THEN CleanupOldData(Session(db), events_at,
                                    cleanup_retention_days, FALSE)
                ELSE [stats |-> None, session |-> Session(db)]} |->
        Let([n \in {IF node_cleanup_enabled
                    THEN CleanupInactiveNodes(e.session, nodes_at,
                                              node_cleanup_days, FALSE)
                    ELSE [count |-> 0, session |-> e.session]} |->
            [stats |-> e.stats,
             nodes_deleted |-> IF node_cleanup_enabled THEN I(n.count)
                               ELSE None,
             after_events |-> e.session.committed,
             db |-> n.session.committed]])])

LastCleanupAfterAnyRun(w, ok) == I(cleaner[w].now)

\* Lines 1052-1056: `self._last_cleanup = now` is the last statement of the
\* try block, so an exception leaves _last_cleanup as it was
LastCleanupAfter(w, ok) == IF ok THEN I(cleaner[w].now) ELSE last_cleanup

\* Lines 1019-1056: one cleanup run, which takes its time; only a run that
\* did not raise sets _last_cleanup, to the time of the check before it.  A
\* run that raises leaves the database as it was, or as the event cleanup
\* committed it when the exception came from the node cleanup.
CleanupRun(w, ok, duration) ==
    /\ cleaner[w].pc = "cleaning"
    /\ now + duration <= MaxTime
    /\ now' = now + duration
    /\ last_cleanup' = LastCleanupAfter(w, ok)
    /\ \E nodes_at \in now..(now + duration) :
       \E r \in {RunCleanup(store, now, nodes_at)} :
          /\ store' \in (IF ok THEN {r.db}
                         ELSE {store} \cup
                              (IF node_cleanup_enabled THEN {r.after_events}
                               ELSE {}))
          /\ cleanup_log' = Append(cleanup_log,
                 [checked_at |-> cleaner[w].now, ok |-> ok, worker |-> w,
                  events_at |-> now,
                  nodes_at |-> IF node_cleanup_enabled /\ ok THEN nodes_at
                               ELSE now,
                  before |-> store, after |-> store',
                  stats |-> IF ok THEN r.stats ELSE None,
                  nodes_deleted |-> IF ok THEN r.nodes_deleted ELSE None])
    /\ cleaner' = [cleaner EXCEPT ![w].pc = "waiting", ![w].i = 0]
    /\ UNCHANGED <<config_vars, decode_vars, trace_vars, hash_vars, lifecycle_vars, history_vars, handlers, decoder,
                   webhook_queue, webhook_lock, cb, worker, cleanup_calls>>

StopUnseen(w) == FALSE

\* Line 1060: `if not self._running: break`
StopSeen(w) == ~running

\* Lines 1059-1061: the head of the for loop over the seconds of the hour,
\* and the poll of _running before each sleep
CleanupWait(w) ==
    /\ cleaner[w].pc = "waiting"
    /\ cleaner' = [cleaner EXCEPT ![w].pc =
           IF cleaner[w].i = SecondsPerHour \/ StopSeen(w)
           THEN "check" ELSE "sleeping"]
    /\ UNCHANGED <<config_vars, decode_vars, trace_vars, hash_vars, lifecycle_vars, history_vars, handlers, decoder,
                   webhook_queue, webhook_lock, cb, worker, last_cleanup, now,
                   cleanup_log, store, cleanup_calls>>

\* Line 1062: time.sleep(1)
CleanupSleep(w) ==
    /\ cleaner[w].pc = "sleeping"
    /\ now < MaxTime
    /\ now' = now + 1
    /\ cleaner' = [cleaner EXCEPT ![w].pc = "waiting", ![w].i = @ + 1]
    /\ UNCHANGED <<config_vars, decode_vars, trace_vars, hash_vars, lifecycle_vars, history_vars, handlers, decoder,
                   webhook_queue, webhook_lock, cb, worker, last_cleanup,
                   cleanup_log, store, cleanup_calls>>

\* A record of the history cleanup_calls
CleanupCall(fn, days, dry_run, before, after, stats, count) ==
    [fn |-> fn, days |-> days, dry_run |-> dry_run, at |-> now,
     before |-> before, after |-> after, stats |-> stats, count |-> count]

\* cleanup_old_data called on a session of its own, which ends after the
\* call; the call reads the clock when it starts and takes its time
CallCleanupOldData(retention_days, dry_run, duration) ==
    /\ Len(cleanup_calls) < MaxCalls
    /\ now + duration <= MaxTime
    /\ now' = now + duration
    /\ \E r \in {CleanupOldData(Session(store), now, retention_days,
                                dry_run)} :
          /\ store' = r.session.committed
          /\ cleanup_calls' = Append(cleanup_calls,
                 CleanupCall("cleanup_old_data", retention_days, dry_run,
                             store, store', r.stats, r.stats.total_deleted))
    /\ UNCHANGED <<config_vars, decode_vars, trace_vars, hash_vars, lifecycle_vars, history_vars, handlers, decoder,
                   webhook_queue, webhook_lock, cb, worker, cleaner,
                   last_cleanup, cleanup_log>>

\* cleanup_inactive_nodes called on a session of its own
CallCleanupInactiveNodes(inactivity_days, dry_run, duration) ==
    /\ Len(cleanup_calls) < MaxCalls
    /\ now + duration <= MaxTime
    /\ now' = now + duration
    /\ \E r \in {CleanupInactiveNodes(Session(store), now, inactivity_days,
                                      dry_run)} :
          /\ store' = r.session.committed
          /\ cleanup_calls' = Append(cleanup_calls,
                 CleanupCall("cleanup_inactive_nodes", inactivity_days,
                             dry_run, store, store', None, r.count))
    /\ UNCHANGED <<config_vars, decode_vars, trace_vars, hash_vars, lifecycle_vars, history_vars, handlers, decoder,
                   webhook_queue, webhook_lock, cb, worker, cleaner,
                   last_cleanup, cleanup_log>>

(***************************************************************************)
(* Calls of the hash functions                                             *)
(***************************************************************************)
HashCall(fn, args, receiver, result) ==
    [fn |-> fn, args |-> args, receiver |-> receiver, result |-> result]

MessageHashWithReceiver(m) ==
    ComputeMessageHash(S(StrOrEmpty(m.text) \o m.receiver), m.pubkey_prefix,
                       m.channel_idx, m.sender_timestamp, m.txt_type)

\* dashboard.py 230-236: the hash of a stored message m
MessageHash(m) ==
    ComputeMessageHash(m.text, m.pubkey_prefix, m.channel_idx,
                       m.sender_timestamp, m.txt_type)

\* The hash of a message report, which beside the five hashed fields has the
\* receiver that reported it and the time it was received
HashMessage(m) ==
    /\ Len(hash_calls) < MaxHashCalls
    /\ hash_calls' = Append(hash_calls,
           HashCall("message",
                    <<m.text, m.pubkey_prefix, m.channel_idx,
                      m.sender_timestamp, m.txt_type>>,
                    <<m.receiver, m.received_at>>, MessageHash(m)))
    /\ UNCHANGED <<config_vars, decode_vars, trace_vars, lifecycle_vars, cleanup_vars, history_vars,
                   handlers, decoder, webhook_queue, webhook_lock, cb, worker>>

\* dashboard.py 140-147, advertisements.py 138-145: the hash of an
\* advertisement a
HashAdvertisement(a, bucket_minutes) ==
    /\ Len(hash_calls) < MaxHashCalls
    /\ hash_calls' = Append(hash_calls,
           HashCall("advertisement",
                    <<a.public_key, a.name, a.adv_type, a.flags, a.received_at,
                      bucket_minutes>>,
                    <<a.receiver>>,
                    ComputeAdvertisementHash(a.public_key, a.name, a.adv_type,
                                             a.flags, a.received_at,
                                             bucket_minutes)))
    /\ UNCHANGED <<config_vars, decode_vars, trace_vars, lifecycle_vars, cleanup_vars, history_vars,
                   handlers, decoder, webhook_queue, webhook_lock, cb, worker>>

\* handlers/trace.py 45: the hash of a trace
HashTrace(initiator_tag, receiver) ==
    /\ Len(hash_calls) < MaxHashCalls
    /\ hash_calls' = Append(hash_calls,
           HashCall("trace", <<initiator_tag>>, <<receiver>>,
                    ComputeTraceHash(initiator_tag)))
    /\ UNCHANGED <<config_vars, decode_vars, trace_vars, lifecycle_vars, cleanup_vars, history_vars,
                   handlers, decoder, webhook_queue, webhook_lock, cb, worker>>

\* The hash of a telemetry record
HashTelemetry(node_public_key, parsed_data, received_at, bucket_minutes, receiver) ==
    /\ Len(hash_calls) < MaxHashCalls
    /\ hash_calls' = Append(hash_calls,
           HashCall("telemetry",
                    <<node_public_key, parsed_data, received_at,
                      bucket_minutes>>,
                    <<receiver>>,
                    ComputeTelemetryHash(node_public_key, parsed_data,
                                         received_at, bucket_minutes)))
    /\ UNCHANGED <<config_vars, decode_vars, trace_vars, lifecycle_vars, cleanup_vars, history_vars,
                   handlers, decoder, webhook_queue, webhook_lock, cb, worker>>

\* Receive times around the boundary between two five-minute buckets, one
\* of them written with another UTC offset
BucketStart == DT(2024, 1, 1, 0, 0, 0, 0, 0)
ReceivedAts ==
    {BucketStart,
     DT(2024, 1, 1, 0, 4, 59, 0, 0),
     DT(2024, 1, 1, 0, 4, 59, 999999, 0),
     DT(2024, 1, 1, 0, 5, 0, 0, 0),
     DT(2024, 1, 1, 1, 4, 59, 0, 60),
     DT(2023, 12, 31, 23, 59, 59, 0, 0)}

Receivers == {"r1", "r2"}

\* The time at which a receiver's report arrived
ReceivedBy(receiver) ==
    IF receiver = "r1" THEN BucketStart ELSE DT(2024, 1, 1, 0, 5, 0, 0, 0)

MessageReports ==
    {[text |-> text, pubkey_prefix |-> pubkey_prefix,
      channel_idx |-> channel_idx, sender_timestamp |-> sender_timestamp,
      txt_type |-> txt_type, receiver |-> receiver,
      received_at |-> ReceivedBy(receiver)] :
        text \in {S("hi"), S(""), S(Surrogate)},
        pubkey_prefix \in {None, S("AABBCCDDEEFF")},
        channel_idx \in {None, I(0)},
        sender_timestamp \in {None, DT(2024, 1, 1, 0, 4, 59, 0, 0)},
        txt_type \in {None, I(0)},
        receiver \in Receivers}

Advertisements ==
    {[public_key |-> S("k"), name |-> name, adv_type |-> None,
      flags |-> flags, received_at |-> received_at, receiver |-> "r1"] :
        name \in {None, S("n")}, flags \in {None, I(0)},
        received_at \in ReceivedAts \cup {None}}

BucketMinutes == {1, 5}

ParsedData ==
    {None, D(<< >>),
     D(<< <<"a", I(1)>>, <<"b", I(2)>> >>),
     D(<< <<"b", I(2)>>, <<"a", I(1)>> >>),
     D(<< <<"b", I(2)>>, <<"a", I(3)>> >>),
     D(<< <<"a", D(<< <<"x", I(1)>>, <<"y", S("v")>> >>)>> >>),
     D(<< <<"a", D(<< <<"y", S("v")>>, <<"x", I(1)>> >>)>> >>)}

InitiatorTags == {I(0), I(7), I(-1)}

(***************************************************************************)
(* start() and stop()                                                      *)
(***************************************************************************)
\* Subscriber.is_healthy
IsHealthy == running /\ mqtt_connected /\ db_connected

TopicsStatusFirst(mode) ==
    IF mode = INGEST_MODE_LETSMESH_UPLOAD
    THEN <<TopicPrefix \o "/+/status", TopicPrefix \o "/+/packets",
           TopicPrefix \o "/+/internal">>
    ELSE <<TopicPrefix \o "/+/event/#">>

StartOutcomes == {"db_error", "mqtt_error", "ok"}

\* Lines 1109-1121 of start(): the patterns of the ingest mode, in the order
\* they are subscribed
Topics(mode) ==
    IF mode = INGEST_MODE_LETSMESH_UPLOAD
    THEN <<TopicPrefix \o "/+/packets", TopicPrefix \o "/+/status",
           TopicPrefix \o "/+/internal">>
    ELSE <<TopicPrefix \o "/+/event/#">>

\* The steps start() takes up to its subscriptions, by what the database
\* check and the connection attempt do
ConnectSteps(outcome) ==
    IF outcome = "db_error" THEN <<"db_check raises">>
    ELSE IF outcome = "mqtt_error" THEN <<"db_check", "connect raises">>
    ELSE <<"db_check", "connect", "start_background">>
         \o [i \in 1..Len(Topics(ingest_mode)) |->
                 "subscribe " \o Topics(ingest_mode)[i]]

\* Lines 1085-1121 of start(): database check, connect, subscribe.  An
\* exception of the first two leaves start() at once.  There is a subscriber
\* to start only when its constructor returned.
StartConnectWithin(outcome, max_starts) ==
    /\ ~Raised(decoder)
    /\ main_pc = "idle"
    /\ starts < max_starts
    /\ starts' = starts + 1
    /\ db_connected' = (outcome /= "db_error")
    /\ mqtt_connected' = IF outcome = "db_error" THEN mqtt_connected
                         ELSE outcome = "ok"
    /\ subscriptions' = IF outcome = "ok"
                        THEN subscriptions \o Topics(ingest_mode)
                        ELSE subscriptions
    /\ steps' = steps \o ConnectSteps(outcome)
    /\ main_pc' = IF outcome = "ok" THEN "start_run" ELSE "idle"
    /\ UNCHANGED <<config_vars, decode_vars, trace_vars, hash_vars, cleanup_vars, history_vars, handlers, decoder,
                   webhook_queue, webhook_lock, cb, worker, running,
                   webhook_thread, cleanup_thread, health_reporter>>

StartConnect(outcome) == StartConnectWithin(outcome, MaxStarts)

\* The steps of lines 1123-1137, by the threads start() launches
RunSteps ==
    <<"running">>
    \o (IF webhooks THEN <<"start webhook-processor">> ELSE << >>)
    \o (IF cleanup_enabled \/ node_cleanup_enabled
        THEN <<"start cleanup-scheduler">> ELSE << >>)
    \o <<"start health-reporter">>

\* Lines 1123-1137 of start(): _running, the two threads, the health reporter
StartRun ==
    /\ main_pc = "start_run"
    /\ running' = TRUE
    /\ IF webhooks
       THEN /\ worker' = [worker EXCEPT ![starts] =
                              [pc |-> "loop", batch |-> << >>]]
            /\ webhook_thread' = starts
       ELSE UNCHANGED <<worker, webhook_thread>>
    /\ IF cleanup_enabled \/ node_cleanup_enabled
       THEN /\ cleaner' = [cleaner EXCEPT ![starts] =
                               [pc |-> "check", now |-> 0, i |-> 0]]
            /\ cleanup_thread' = starts
       ELSE UNCHANGED <<cleaner, cleanup_thread>>
    /\ health_reporter' = TRUE
    /\ steps' = steps \o RunSteps
    /\ main_pc' = "idle"
    /\ UNCHANGED <<config_vars, decode_vars, trace_vars, hash_vars, history_vars, handlers, decoder, webhook_queue,
                   webhook_lock, cb, db_connected, mqtt_connected,
                   subscriptions, starts, last_cleanup, now, cleanup_log,
                   store, cleanup_calls>>

StopUnguarded == TRUE

\* Line 1156 of stop(): `if not self._running: return`, TRUE when stop()
\* goes on
StopGuard == running

\* Lines 1156-1161 of stop(): a stop of a stopped subscriber does nothing
Stop ==
    /\ main_pc = "idle"
    /\ starts > 0
    /\ IF StopGuard
       THEN /\ running' = FALSE
            /\ steps' = Append(steps, "clear running")
            /\ main_pc' = "stop_cleanup"
       ELSE UNCHANGED <<running, steps, main_pc>>
    /\ UNCHANGED <<config_vars, decode_vars, trace_vars, hash_vars, cleanup_vars, history_vars, handlers, decoder,
                   webhook_queue, webhook_lock, cb, worker, db_connected,
                   mqtt_connected, subscriptions, starts, webhook_thread,
                   cleanup_thread, health_reporter>>

ThreadAlive(pc) == pc \notin {"none", "exited"}

JoinForever(alive, timed_out) == ~alive

\* thread.join(timeout=5.0) (lines 968 and 1077): it returns when the thread
\* has ended or when the timeout has passed
JoinReturns(alive, timed_out) == ~alive \/ timed_out

\* The threads that have not ended
AliveThreads ==
    {WorkerName(w) : w \in {v \in Workers : ThreadAlive(worker[v].pc)}}
    \cup {"cleanup-scheduler-" \o IntToStr(w) :
              w \in {v \in Workers : ThreadAlive(cleaner[v].pc)}}

\* _stop_cleanup_scheduler
StopCleanupScheduler ==
    /\ main_pc = "stop_cleanup"
    /\ \E timed_out \in BOOLEAN :
          IF cleanup_thread = 0 THEN TRUE
          ELSE JoinReturns(ThreadAlive(cleaner[cleanup_thread].pc), timed_out)
    /\ steps' = Append(steps, "stop cleanup-scheduler")
    /\ main_pc' = "stop_webhook"
    /\ UNCHANGED <<config_vars, decode_vars, trace_vars, hash_vars, cleanup_vars, history_vars, handlers, decoder,
                   webhook_queue, webhook_lock, cb, worker, running,
                   db_connected, mqtt_connected, subscriptions, starts,
                   webhook_thread, cleanup_thread, health_reporter>>

\* _stop_webhook_processor
StopWebhookProcessor ==
    /\ main_pc = "stop_webhook"
    /\ \E timed_out \in BOOLEAN :
          IF webhook_thread = 0 THEN TRUE
          ELSE JoinReturns(ThreadAlive(worker[webhook_thread].pc), timed_out)
    /\ steps' = Append(steps, "stop webhook-processor")
    /\ main_pc' = "stop_mqtt"
    /\ UNCHANGED <<config_vars, decode_vars, trace_vars, hash_vars, cleanup_vars, history_vars, handlers, decoder,
                   webhook_queue, webhook_lock, cb, worker, running,
                   db_connected, mqtt_connected, subscriptions, starts,
                   webhook_thread, cleanup_thread, health_reporter>>

\* Lines 1169-1177 of stop(): health reporter, mqtt.stop(), disconnect()
StopMqtt ==
    /\ main_pc = "stop_mqtt"
    /\ health_reporter' = FALSE
    /\ mqtt_connected' = FALSE
    /\ steps' = steps \o <<"stop health-reporter", "mqtt.stop", "disconnect">>
    /\ main_pc' = "idle"
    /\ UNCHANGED <<config_vars, decode_vars, trace_vars, hash_vars, cleanup_vars, history_vars, handlers, decoder,
                   webhook_queue, webhook_lock, cb, worker, running,
                   db_connected, subscriptions, starts, webhook_thread,
                   cleanup_thread>>

HandlerTypes == {"advertisement"}

Next ==
    \/ \E event_type \in HandlerTypes : RegisterHandler(event_type)
    \/ \E c \in Callbacks, m \in PipelineMessages(ingest_mode),
          env \in PipelineEnvs : HandleMqttMessage(c, m, env)
    \/ \E c \in Callbacks, outcome \in HandlerOutcomes :
          DispatchEvent(c, outcome)
    \/ \E c \in Callbacks : CallbackAcquire(c)
    \/ \E c \in Callbacks : QueueWebhookEvent(c)
    \/ \E w \in Workers : WorkerLoop(w)
    \/ \E w \in Workers : WorkerAcquire(w)
    \/ \E w \in Workers : WorkerCopy(w)
    \/ \E w \in Workers : WorkerClear(w)
    \/ \E w \in Workers, outcome \in DispatchOutcomes :
          WorkerDispatch(w, outcome)
    \/ \E w \in Workers : WorkerSleep(w)
    \/ \E w \in Workers : CleanupCheck(w)
    \/ \E w \in Workers, ok \in BOOLEAN, duration \in RunDurations :
          CleanupRun(w, ok, duration)
    \/ \E w \in Workers : CleanupWait(w)
    \/ \E w \in Workers : CleanupSleep(w)
    \/ \E days \in CleanupDays, dry_run \in BOOLEAN, duration \in RunDurations :
          CallCleanupOldData(days, dry_run, duration)
    \/ \E days \in CleanupDays, dry_run \in BOOLEAN, duration \in RunDurations :
          CallCleanupInactiveNodes(days, dry_run, duration)
    \/ \E m \in MessageReports : HashMessage(m)
    \/ \E a \in Advertisements, bucket_minutes \in BucketMinutes :
          HashAdvertisement(a, bucket_minutes)
    \/ \E initiator_tag \in InitiatorTags, receiver \in Receivers :
          HashTrace(initiator_tag, receiver)
    \/ \E parsed_data \in ParsedData, received_at \in ReceivedAts \cup {None},
          receiver \in Receivers :
          HashTelemetry(S("k"), parsed_data, received_at, 5, receiver)
    \/ \E outcome \in StartOutcomes : StartConnect(outcome)
    \/ StartRun
    \/ Stop
    \/ StopCleanupScheduler
    \/ StopWebhookProcessor
    \/ StopMqtt

Spec == Init /\ [][Next]_vars

\* The ingestion pipeline with its webhook hand-off, cleanup switched off
InitIngest ==
    /\ Init
    /\ ~cleanup_enabled
    /\ ~node_cleanup_enabled
    /\ cleanup_interval_hours = 1

NextIngest ==
    \/ \E event_type \in HandlerTypes : RegisterHandler(event_type)
    \/ \E c \in Callbacks, m \in PipelineMessages(ingest_mode),
          env \in PipelineEnvs : HandleMqttMessage(c, m, env)
    \/ \E c \in Callbacks, outcome \in HandlerOutcomes :
          DispatchEvent(c, outcome)
    \/ \E c \in Callbacks : CallbackAcquire(c)
    \/ \E c \in Callbacks : QueueWebhookEvent(c)
    \/ \E w \in Workers : WorkerLoop(w)
    \/ \E w \in Workers : WorkerAcquire(w)
    \/ \E w \in Workers : WorkerCopy(w)
    \/ \E w \in Workers : WorkerClear(w)
    \/ \E w \in Workers, outcome \in DispatchOutcomes :
          WorkerDispatch(w, outcome)
    \/ \E w \in Workers : WorkerSleep(w)
    \/ \E outcome \in StartOutcomes : StartConnect(outcome)
    \/ StartRun
    \/ Stop
    \/ StopCleanupScheduler
    \/ StopWebhookProcessor
    \/ StopMqtt

SpecIngest == InitIngest /\ [][NextIngest]_vars


(***************************************************************************)
(* Properties of the ingestion pipeline                                    *)
(***************************************************************************)
MsgIds == 1..Len(msgs)

IsEvent(id) == msgs[id].parsed.t = "event"

\* a callback is between normalization and the handler's return for id
AwaitingHandler(id) == \E c \in Callbacks : cb[c].id = id /\ cb[c].pc = "dispatch"

\* a callback still works on id
InCallback(id) == \E c \in Callbacks : cb[c].id = id

Occurrences(seq, x) == Cardinality({i \in 1..Len(seq) : seq[i] = x})

QueuedIds == [i \in 1..Len(webhook_queue) |-> webhook_queue[i].id]

RECURSIVE Flatten(_)
Flatten(seqs) == IF seqs = << >> THEN << >> ELSE Head(seqs) \o Flatten(Tail(seqs))

HandlerRaised(id) == \E i \in 1..Len(calls[id]) : calls[id][i].outcome = "raise"

\* C1: an exception raised by the handler of an event (type-specific or
\* generic) is caught in _dispatch_event: the callback of that event does not
\* end with an exception at the transport, and every event whose callback is
\* past the handler call, whatever failed before, was handed to its handler.
C1_HandlerFailureContained ==
    \A id \in MsgIds :
        /\ HandlerRaised(id) => id \notin escaped
        /\ (IsEvent(id) /\ ~AwaitingHandler(id)) => Len(calls[id]) = 1

C1_Witness ==
    /\ Len(msgs) = 2
    /\ HandlerRaised(1)
    /\ calls[1][1].handler = "handle_event_log"
    /\ ~InCallback(1)
    /\ Len(calls[2]) = 1 /\ calls[2][1].outcome = "stored"
    /\ calls[2][1].handler = "advertisement"

\* C2: every normalized event is handed to exactly one handler, once: the
\* handler registered for its type, else the generic event-log handler, with
\* the event's public key, type and payload; in native mode these are the
\* two topic segments and the inbound payload itself.
C2_ExactlyOneHandlerOnce ==
    \A id \in MsgIds :
        /\ Len(calls[id]) <= 1
        /\ ~IsEvent(id) => calls[id] = << >>
        /\ (IsEvent(id) /\ ~AwaitingHandler(id)) => Len(calls[id]) = 1
        /\ \A i \in 1..Len(calls[id]) :
              LET call == calls[id][i]
                  ev == msgs[id].parsed
              IN /\ call.event_type = ev.event_type
                 /\ call.public_key = ev.public_key
                 /\ call.payload = ev.payload
                 /\ call.handler = IF ev.event_type \in handlers
                                   THEN ev.event_type
                                   ELSE "handle_event_log"
                 /\ ingest_mode = INGEST_MODE_NATIVE =>
                       /\ call.payload = msgs[id].payload
                       /\ msgs[id].topic = TopicPrefix \o "/" \o call.public_key
                                           \o "/event/" \o call.event_type

C2_Witness ==
    /\ ingest_mode = INGEST_MODE_NATIVE
    /\ Len(msgs) = 2
    /\ Len(calls[1]) = 1 /\ calls[1][1].handler = "advertisement"
    /\ calls[1][1].payload = msgs[1].payload
    /\ Len(calls[2]) = 1 /\ calls[2][1].handler = "handle_event_log"
    /\ calls[2][1].event_type = "battery"

\* C3: with a webhook configured every dispatched event is appended to the
\* webhook queue exactly once, and only after its handler call has ended
\* (stored, duplicate or caught failure); without one nothing is ever
\* appended.
C3_QueuedOnceAfterHandler ==
    /\ ~webhooks => (webhook_queue = << >> /\ enqueued = << >>)
    /\ \A id \in MsgIds :
          /\ Occurrences(enqueued, id) <= 1
          /\ Occurrences(enqueued, id) = 1 => Len(calls[id]) = 1
          /\ (webhooks /\ IsEvent(id) /\ ~InCallback(id)) =>
                Occurrences(enqueued, id) = 1
          /\ (webhooks /\ Len(calls[id]) = 1
                /\ \A c \in Callbacks : cb[c].id = id => cb[c].pc = "append") =>
                Occurrences(enqueued, id) = IF InCallback(id) THEN 0 ELSE 1

C3_Witness ==
    /\ webhooks
    /\ Len(msgs) = 2
    /\ HandlerRaised(1) /\ Occurrences(enqueued, 1) = 1
    /\ Len(calls[2]) = 1 /\ calls[2][1].outcome = "duplicate"
    /\ Occurrences(enqueued, 2) = 1

\* C4: the worker copies and clears the queue inside one critical section,
\* so no append falls between copy and clear: every appended event is either
\* still queued or in exactly one drained batch, never both and never
\* neither, and while the worker is between copy and clear it holds the lock
\* and its copy is the whole queue.
C4_AtomicSwap ==
    /\ \A id \in MsgIds :
          Occurrences(enqueued, id) =
              Occurrences(QueuedIds, id) + Occurrences(Flatten(batches), id)
    /\ \A w \in Workers :
          worker[w].pc = "clear" =>
              /\ webhook_lock = WorkerName(w)
              /\ worker[w].batch = webhook_queue
    /\ \A c \in Callbacks :
          cb[c].pc = "append" => webhook_lock = c

C4_Witness ==
    /\ batches = << <<1>> >>
    /\ QueuedIds = <<2>>
    /\ \E w \in Workers : worker[w].pc = "dispatch" /\ worker[w].batch /= << >>

\* C10: a message whose topic does not parse for the ingest mode is dropped:
\* no handler call, no webhook entry, no exception at the transport, no
\* callback left working on it; messages that arrive later are handled as
\* usual.
TopicParses(mode, topic) ==
    IF mode = INGEST_MODE_LETSMESH_UPLOAD
    THEN ParseLetsmeshUploadTopic(topic) /= << >>
    ELSE ParseEventTopic(topic) /= << >>

C10_UnparsedTopicDropped ==
    \A id \in MsgIds :
        /\ ~TopicParses(ingest_mode, msgs[id].topic) =>
              /\ msgs[id].parsed = None
              /\ calls[id] = << >>
              /\ Occurrences(enqueued, id) = 0
              /\ id \notin escaped
              /\ ~InCallback(id)
        /\ (TopicParses(ingest_mode, msgs[id].topic) /\ ~Raised(msgs[id].parsed)
              /\ ~AwaitingHandler(id)) => Len(calls[id]) = 1

C10_Witness ==
    /\ Len(msgs) = 2
    /\ ~TopicParses(ingest_mode, msgs[1].topic)
    /\ TopicParses(ingest_mode, msgs[2].topic)
    /\ Len(calls[2]) = 1
    /\ webhooks /\ enqueued = <<2>>


(***************************************************************************)
(* The webhook hand-off under a fairly scheduled worker                    *)
(***************************************************************************)
InitDrain == InitIngest /\ webhooks /\ ingest_mode = INGEST_MODE_NATIVE

\* The worker thread is scheduled again and again, and a callback that holds
\* the lock gets to its append and releases it.
WorkerFairness ==
    /\ \A w \in Workers :
          /\ WF_vars(WorkerLoop(w))
          /\ WF_vars(WorkerAcquire(w))
          /\ WF_vars(WorkerCopy(w))
          /\ WF_vars(WorkerClear(w))
          /\ WF_vars(\E outcome \in DispatchOutcomes : WorkerDispatch(w, outcome))
          /\ WF_vars(WorkerSleep(w))
    /\ \A c \in Callbacks : WF_vars(QueueWebhookEvent(c))

FairDrain == InitDrain /\ [][NextIngest]_vars /\ WorkerFairness

DispatchedIds == [i \in 1..Len(dispatched) |-> dispatched[i].id]

InQueue(id) == Occurrences(QueuedIds, id) > 0

InBatch(id) ==
    \E w \in Workers :
        \E i \in 1..Len(worker[w].batch) : worker[w].batch[i].id = id

Dispatched(id) == Occurrences(DispatchedIds, id) > 0

\* C5: with a webhook configured and a fairly scheduled worker, every event
\* in the webhook queue of a running service gets its dispatch call unless
\* the service is stopped first; every event of a drained batch gets its
\* dispatch call whatever the dispatch of the events before it did; and no
\* event gets a second dispatch call.
C5_EveryQueuedEventDispatched ==
    /\ [](\A id \in 1..MaxMsgs : Occurrences(DispatchedIds, id) <= 1)
    /\ \A id \in 1..MaxMsgs :
          (InQueue(id) /\ running) ~> (Dispatched(id) \/ ~running)
    /\ \A id \in 1..MaxMsgs : InBatch(id) ~> Dispatched(id)

C5_Witness ==
    /\ running
    /\ batches = << <<1, 2>> >>
    /\ Len(dispatched) = 2
    /\ dispatched[1].id = 1 /\ dispatched[1].outcome = "raise"
    /\ dispatched[2].id = 2 /\ dispatched[2].outcome = "ok"


(***************************************************************************)
(* Ingestion beside both background workers                                *)
(***************************************************************************)
InitScheduled ==
    /\ Init
    /\ webhooks
    /\ ingest_mode = INGEST_MODE_NATIVE
    /\ cleanup_enabled
    /\ node_cleanup_enabled
    /\ cleanup_interval_hours = 1

ScheduledMessages ==
    { Msg("meshcore/" \o ObserverKey \o "/event/advertisement",
          << <<"public_key", S(NodeKey)>>, <<"name", S("Node1")>> >>) }

NextScheduled ==
    \/ \E c \in Callbacks, m \in ScheduledMessages, env \in PipelineEnvs :
          HandleMqttMessage(c, m, env)
    \/ \E c \in Callbacks : DispatchEvent(c, "stored")
    \/ \E c \in Callbacks : CallbackAcquire(c)
    \/ \E c \in Callbacks : QueueWebhookEvent(c)
    \/ \E w \in Workers : WorkerLoop(w)
    \/ \E w \in Workers : WorkerAcquire(w)
    \/ \E w \in Workers : WorkerCopy(w)
    \/ \E w \in Workers : WorkerClear(w)
    \/ \E w \in Workers, outcome \in DispatchOutcomes :
          WorkerDispatch(w, outcome)
    \/ \E w \in Workers : WorkerSleep(w)
    \/ \E w \in Workers : CleanupCheck(w)
    \/ \E w \in Workers : CleanupRun(w, TRUE, 0)
    \/ \E w \in Workers : CleanupWait(w)
    \/ \E w \in Workers : CleanupSleep(w)
    \/ StartConnect("ok")
    \/ StartRun
    \/ Stop
    \/ StopCleanupScheduler
    \/ StopWebhookProcessor
    \/ StopMqtt

SpecScheduled == InitScheduled /\ [][NextScheduled]_vars


\* C6: the webhook lock is never held by a thread that is dispatching a
\* webhook or running a cleanup: its holder is a callback at its append or
\* the worker between its emptiness test and its clear, and in either case
\* the holder's next step needs nothing but the processor, so a callback
\* that waits for the lock waits for one append or one copy-and-clear.
C6_LockNotHeldDuringDelivery ==
    /\ webhook_lock \in {"free"} \cup Callbacks \cup {WorkerName(w) : w \in Workers}
    /\ \A w \in Workers :
          /\ worker[w].pc \in {"dispatch", "sleep", "loop", "lock", "exited",
                               "none"} => webhook_lock /= WorkerName(w)
          /\ webhook_lock = WorkerName(w) =>
                /\ worker[w].pc \in {"locked", "clear"}
                /\ ENABLED (WorkerCopy(w) \/ WorkerClear(w))
    /\ \A c \in Callbacks :
          webhook_lock = c =>
              /\ cb[c].pc = "append"
              /\ ENABLED QueueWebhookEvent(c)

C6_Witness ==
    \E c \in Callbacks, w \in Workers :
        /\ cb[c].pc = "append"
        /\ webhook_lock = c
        /\ worker[w].pc = "dispatch"
        /\ cleaner[w].pc = "cleaning"


(***************************************************************************)
(* Upload-mode normalization over a range of payloads and decoder outcomes *)
(***************************************************************************)
\* decoder output with a payload type and, under payload.decoded.decrypted,
\* a message text (None where the field is absent)
DecodedPacket(payload_type, text) ==
    D(PutIfSet(
        << <<"payload",
             D(<< <<"decoded",
                    D(<< <<"decrypted",
                           D(PutIfSet(<< <<"sender", S("Alice")>> >>,
                                      "message", text))>>,
                         <<"channelHash", S("11")>> >>)>> >>)>> >>,
        "payloadType", payload_type))

DecodedAdvert ==
    D(<< <<"payloadType", I(4)>>,
         <<"payload",
           D(<< <<"decoded",
                  D(<< <<"type", I(4)>>,
                       <<"publicKey", S(NodeKey)>>,
                       <<"appData",
                         D(<< <<"name", S("Node1")>>,
                              <<"deviceRole", I(2)>> >>)>> >>)>> >>)>> >>)

DecodedPayloadTypes == {None, I(1), I(2), I(3), I(5), I(7)}
DecodedTexts == {None, S(""), S(" "), S("hi")}

ProcExit(returncode) == [kind |-> "exit", returncode |-> returncode,
                         out |-> "json", json |-> D(<< >>)]

DecoderRuns ==
    {ProcTimeout, ProcExit(1), ProcJson(L(<< >>)), ProcJson(DecodedAdvert)}
    \cup {ProcJson(DecodedPacket(payload_type, text)) :
              payload_type \in DecodedPayloadTypes, text \in DecodedTexts}

PacketPayloads ==
    { << <<"raw", S("0A")>> >>,
      << <<"raw", S("0A")>>, <<"packet_type", S("5")>> >>,
      << <<"raw", S("0B")>>, <<"packet_type", I(7)>>, <<"text", S("plain")>> >>,
      << <<"packet_type", I(5)>>, <<"hash", S("AB12")>> >>,
      << <<"raw", S("0A")>>, <<"packet_type", FInf>> >> }

StatusPayloads ==
    { << >>,
      << <<"origin", S("Observer Node")>>, <<"origin_id", S(NodeKey)>> >>,
      << <<"stats", D(<< <<"debug_flags", I(7)>> >>)>> >>,
      << <<"origin_id", S(NodeKey)>>, <<"flags", I(3)>>,
         <<"stats", D(<< <<"debug_flags", I(7)>> >>)>> >>,
      << <<"origin_id", S("xyz")>>, <<"name", S("Node1")>> >>,
      << <<"flags", FInf>> >> }

InternalPayloads == { << <<"uptime", I(12)>> >> }

Feed(feed_type) == "meshcore/" \o ObserverKey \o "/" \o feed_type

NormalizeMessages ==
    {Msg(Feed("packets"), payload) : payload \in PacketPayloads}
    \cup {Msg(Feed("status"), payload) : payload \in StatusPayloads}
    \cup {Msg(Feed("internal"), payload) : payload \in InternalPayloads}
    \cup {Msg(Feed("telemetry"), payload) : payload \in InternalPayloads}

\* the decoder outcomes that matter for a message: only the packets feed
\* reaches the decoder
NormalizeEnvs(m) ==
    IF m.topic = Feed("packets") /\ HasKey(m.payload, "raw")
    THEN {Env(TRUE, proc) : proc \in DecoderRuns} \cup {Env(FALSE, ProcTimeout)}
    ELSE {Env(TRUE, ProcTimeout)}

InitNormalize ==
    InitIngest /\ ingest_mode = INGEST_MODE_LETSMESH_UPLOAD /\ ~webhooks

NextNormalize ==
    \/ StartConnect("ok")
    \/ StartRun
    \/ \E m \in NormalizeMessages :
          \E env \in NormalizeEnvs(m) : HandleMqttMessage("cb1", m, env)
    \/ DispatchEvent("cb1", "stored")

SpecNormalize == InitNormalize /\ [][NextNormalize]_vars


(***************************************************************************)
(* Properties of upload-mode normalization                                 *)
(***************************************************************************)
FeedOf(id) == ParseLetsmeshUploadTopic(msgs[id].topic)

OnFeed(id, feed_type) == FeedOf(id) /= << >> /\ FeedOf(id)[2] = feed_type

MessageEventTypes == {"channel_msg_recv", "contact_msg_recv"}

\* the text the decoder output of the message's packet holds, and the packet
\* type resolved for it
DecoderText(id) == ExtractLetsmeshDecoderText(msgs[id].decoded)
PacketType(id) == ResolveLetsmeshPacketType(msgs[id].payload, msgs[id].decoded)

\* C7: a channel_msg_recv or contact_msg_recv event comes only from a
\* packets-feed message whose decoder output holds non-empty text; among the
\* packets that yield an event, the event is channel_msg_recv exactly when
\* there is text and the packet type is 5, contact_msg_recv exactly when
\* there is text and the packet type is 1, 2 or 7, and a packet without text
\* yields advertisement or letsmesh_packet.
C7_MessagesOnlyWithDecodedText ==
    \A id \in MsgIds :
        LET ev == msgs[id].parsed
        IN ev.t = "event" =>
            /\ ev.event_type \in MessageEventTypes =>
                  (OnFeed(id, "packets") /\ Truthy(DecoderText(id)))
            /\ OnFeed(id, "packets") =>
                  /\ ev.event_type = "channel_msg_recv" <=>
                        (Truthy(DecoderText(id)) /\ NumEq(PacketType(id), 5))
                  /\ ev.event_type = "contact_msg_recv" <=>
                        /\ Truthy(DecoderText(id))
                        /\ \E n \in {1, 2, 7} : NumEq(PacketType(id), n)
                  /\ ~Truthy(DecoderText(id)) =>
                        ev.event_type \in {"advertisement", "letsmesh_packet"}

C7_Witness ==
    /\ Len(msgs) = 2
    /\ msgs[1].parsed.t = "event"
    /\ msgs[1].parsed.event_type = "channel_msg_recv"
    /\ Get(msgs[1].parsed.payload, "text") = S("Alice: hi")
    /\ msgs[2].parsed.t = "event"
    /\ msgs[2].parsed.event_type = "letsmesh_packet"
    /\ NumEq(PacketType(2), 7)
    /\ IsDict(msgs[2].decoded)
    /\ ~Truthy(DecoderText(2))

\* C8: in upload mode every message with a recognized topic yields exactly
\* one event, with the topic's observer key as its public key: on the
\* packets feed a message, an advertisement or the letsmesh_packet fallback
\* (the inbound payload plus, after a decode, the decoded object and its
\* payload type), on the internal feed letsmesh_internal with the inbound
\* payload; the event is handed to a handler once.
C8_EveryRecognizedMessageYieldsOneEvent ==
    \A id \in MsgIds :
        LET ev == msgs[id].parsed
            m == msgs[id]
        IN FeedOf(id) /= << >> =>
            /\ ev.t = "event"
            /\ ev.public_key = FeedOf(id)[1]
            /\ ~AwaitingHandler(id) => Len(calls[id]) = 1
            /\ OnFeed(id, "internal") =>
                  (ev.event_type = "letsmesh_internal" /\ ev.payload = m.payload)
            /\ OnFeed(id, "packets") =>
                  /\ ev.event_type \in MessageEventTypes
                                       \cup {"advertisement", "letsmesh_packet"}
                  /\ ev.event_type = "letsmesh_packet" =>
                        IF IsDict(m.decoded)
                        THEN /\ Get(ev.payload, "decoded_packet") = m.decoded
                             /\ Get(ev.payload, "decoded_payload_type") =
                                    ExtractLetsmeshDecoderPayloadType(m.decoded)
                             /\ Pop(Pop(ev.payload, "decoded_packet"),
                                    "decoded_payload_type") = m.payload
                        ELSE ev.payload = m.payload

IdentityKeys ==
    {"origin", "name", "flags", "lat", "lon", "adv_lat", "adv_lon", "location",
     "adv_type", "type", "node_type", "role", "mode", "status", "model"}

\* C9: in upload mode every status-feed message yields exactly one event,
\* advertisement or letsmesh_status; a status payload without any identity
\* field yields letsmesh_status with the inbound payload; and the flags of
\* an advertisement derived from a status are the top-level flags, never
\* stats.debug_flags.
C9_StatusNeverDiscarded ==
    \A id \in MsgIds :
        LET ev == msgs[id].parsed
            m == msgs[id]
        IN OnFeed(id, "status") =>
            /\ ev.t = "event"
            /\ ev.event_type \in {"advertisement", "letsmesh_status"}
            /\ (\A k \in IdentityKeys : ~HasKey(m.payload, k)) =>
                  (ev.event_type = "letsmesh_status" /\ ev.payload = m.payload)
            /\ ev.event_type = "advertisement" =>
                  Get(ev.payload, "flags") = Get(m.payload, "flags")


(***************************************************************************)
(* The decoder bridge over a sequence of packets-feed messages             *)
(***************************************************************************)
MaxDecodeMsgs == 4

ProcOsError == [kind |-> "oserror", returncode |-> 0, out |-> "empty",
                json |-> None]
ProcUndecodable == [kind |-> "undecodable", returncode |-> 0, out |-> "empty",
                    json |-> None]
ProcEmpty == [kind |-> "exit", returncode |-> 0, out |-> "empty",
              json |-> None]
ProcNonJson == [kind |-> "exit", returncode |-> 0, out |-> "nonjson",
                json |-> None]

\* LetsMeshPacketDecoder(enabled=..., command=...): a decoder switched off, or
\* one built with an empty command
DecoderConfigs ==
    { [InitDecoder EXCEPT !.enabled = config[1], !.has_command = config[2]] :
          config \in {<<TRUE, TRUE>>, <<FALSE, TRUE>>, <<TRUE, FALSE>>} }

RawPacket(raw) == << <<"raw", raw>>, <<"packet_type", I(5)>> >>

DecodeMessages ==
    {Msg(Feed("packets"), RawPacket(raw)) :
         raw \in {S("0A"), S("0B"), S("0C"), S(" 0A "), S(" "), I(10)}}

\* the subprocess outcomes tried for a packet: every kind of run for the
\* first raw hex, a success or a timeout for the second
DecodeEnvs(m) ==
    IF Get(m.payload, "raw") = S("0A")
    THEN {Env(TRUE, proc) :
              proc \in {ProcTimeout, ProcOsError, ProcExit(1), ProcEmpty,
                        ProcNonJson, ProcJson(L(<< >>)), ProcUndecodable,
                        ProcJson(DecodedChannelText)}}
         \cup {Env(FALSE, ProcTimeout)}
    ELSE IF Get(m.payload, "raw") = S("0B")
    THEN {Env(TRUE, ProcJson(DecodedAdvert)), Env(TRUE, ProcTimeout)}
    ELSE {Env(TRUE, ProcTimeout)}

InitDecode ==
    /\ \E dec \in DecoderConfigs : InitSubscriberWith(dec)
    /\ ingest_mode = INGEST_MODE_LETSMESH_UPLOAD
    /\ ~webhooks
    /\ ~cleanup_enabled
    /\ ~node_cleanup_enabled
    /\ cleanup_interval_hours = 1

NextDecode ==
    \/ StartConnect("ok")
    \/ StartRun
    \/ \E m \in DecodeMessages :
          \E env \in DecodeEnvs(m) :
              HandleMqttMessageUpTo(MaxDecodeMsgs, "cb1", m, env)
    \/ DispatchEvent("cb1", "stored")

SpecDecode == InitDecode /\ [][NextDecode]_vars

\* the cache key of a packet: its stripped raw hex, "" when it has none
CleanHex(payload) ==
    IF IsStr(Get(payload, "raw")) THEN Strip(Get(payload, "raw").s) ELSE ""

CacheKeys(cache) == [i \in 1..Len(cache) |-> cache[i][1]]

\* C11: a decode that does not give an object gives None and does not raise,
\* whatever the decoder subprocess did (command missing, non-zero exit,
\* timeout, output that is not JSON, JSON that is not an object), and the
\* packets-feed message that caused it still yields its canonical event.
C11_DecodeFailureIsNoResult ==
    \A id \in MsgIds :
        OnFeed(id, "packets") =>
            /\ ~IsDict(msgs[id].decoded) => IsNone(msgs[id].decoded)
            /\ msgs[id].parsed.t = "event"
            /\ id \notin escaped

\* C12: the decode cache never holds more than DecodeCacheMaxsize entries;
\* a message changes it only by appending the entry of a raw hex that was not
\* cached, which then is the newest entry, and on overflow exactly the oldest
\* entry goes; a message whose raw hex is cached leaves the cache, order
\* included, as it was.
C12_CacheBoundedFifo ==
    [][ /\ Len(decoder'.cache) <= DecodeCacheMaxsize
        /\ \/ decoder'.cache = decoder.cache
           \/ /\ decoder'.cache # << >>
              /\ ~HasKey(decoder.cache, decoder'.cache[Len(decoder'.cache)][1])
              /\ SubSeq(decoder'.cache, 1, Len(decoder'.cache) - 1) =
                     IF Len(decoder.cache) = DecodeCacheMaxsize
                     THEN Tail(decoder.cache) ELSE decoder.cache
        /\ Len(msgs') > Len(msgs) =>
              LET m == msgs'[Len(msgs')]
                  clean_hex == CleanHex(m.payload)
              IN /\ HasKey(decoder.cache, clean_hex) =>
                        decoder'.cache = decoder.cache
                 /\ (clean_hex # "" /\ ~HasKey(decoder.cache, clean_hex)
                       /\ ~Raised(m.decoded)) =>
                        /\ decoder'.cache # << >>
                        /\ decoder'.cache[Len(decoder'.cache)] =
                               <<clean_hex, m.decoded>>
                 /\ clean_hex = "" => decoder'.cache = decoder.cache
      ]_vars

C12_Witness ==
    /\ Len(msgs) = 4
    /\ [i \in 1..4 |-> CleanHex(msgs[i].payload)] = <<"0A", "0B", "0A", "0C">>
    /\ msgs[3].runs = 0
    /\ CacheKeys(decoder.cache) = <<"0B", "0C">>

\* C13: a message whose raw hex is in the cache gets the cached result, None
\* included, without a subprocess run; a decode that ended without an
\* exception leaves its result, None included, in the cache under the raw
\* hex; a switched-off or missing decoder never runs a subprocess; and no
\* message runs the subprocess more than once, although normalization asks
\* for the decode result up to three times.
C13_AtMostOneRunPerHex ==
    [][ Len(msgs') > Len(msgs) =>
          LET m == msgs'[Len(msgs')]
              clean_hex == CleanHex(m.payload)
          IN /\ m.runs <= 1
             /\ HasKey(decoder.cache, clean_hex) =>
                   /\ m.runs = 0
                   /\ m.decoded = Get(decoder.cache, clean_hex)
             /\ (clean_hex # "" /\ ~Raised(m.decoded)) =>
                   /\ HasKey(decoder'.cache, clean_hex)
                   /\ Get(decoder'.cache, clean_hex) = m.decoded
             /\ (~decoder.enabled \/ ~decoder.has_command) => m.runs = 0
      ]_vars

C13_Witness ==
    /\ Len(msgs) = 3
    /\ \A i \in 1..3 : CleanHex(msgs[i].payload) = "0A"
    /\ msgs[1].runs = 1 /\ IsNone(msgs[1].decoded)
    /\ msgs[1].parsed.t = "event"
    /\ msgs[2].runs = 0 /\ IsNone(msgs[2].decoded)
    /\ msgs[2].parsed.t = "event"
    /\ msgs[3].payload # msgs[1].payload
    /\ msgs[3].runs = 0
    /\ decoder.cache = << <<"0A", None>> >>


(***************************************************************************)
(* start() and stop() beside the two background threads                    *)
(***************************************************************************)
InitLifecycle == Init /\ cleanup_interval_hours = 1

NextLifecycle ==
    \/ \E outcome \in StartOutcomes : StartConnect(outcome)
    \/ StartRun
    \/ Stop
    \/ StopCleanupScheduler
    \/ StopWebhookProcessor
    \/ StopMqtt
    \/ \E m \in PipelineMessages(ingest_mode), env \in PipelineEnvs :
          HandleMqttMessageUpTo(1, "cb1", m, env)
    \/ DispatchEvent("cb1", "stored")
    \/ CallbackAcquire("cb1")
    \/ QueueWebhookEvent("cb1")
    \/ \E w \in Workers : WorkerLoop(w)
    \/ \E w \in Workers : WorkerAcquire(w)
    \/ \E w \in Workers : WorkerCopy(w)
    \/ \E w \in Workers : WorkerClear(w)
    \/ \E w \in Workers : WorkerDispatch(w, "ok")
    \/ \E w \in Workers : WorkerSleep(w)
    \/ \E w \in Workers : CleanupCheck(w)
    \/ \E w \in Workers, ok \in BOOLEAN : CleanupRun(w, ok, 0)
    \/ \E w \in Workers : CleanupWait(w)
    \/ \E w \in Workers : CleanupSleep(w)

SpecLifecycle == InitLifecycle /\ [][NextLifecycle]_vars

Last(seq) == seq[Len(seq)]

StepsAt(step) == {i \in 1..Len(steps) : steps[i] = step}

\* the patterns of a mode as start() is to subscribe them
SubscribedInOrder(mode) ==
    IF mode = INGEST_MODE_LETSMESH_UPLOAD
    THEN <<"meshcore/+/packets", "meshcore/+/status", "meshcore/+/internal">>
    ELSE <<"meshcore/+/event/#">>

\* what start() does before it sets _running
BeforeRunning(mode) ==
    <<"db_check", "connect", "start_background">>
    \o [i \in 1..Len(SubscribedInOrder(mode)) |->
            "subscribe " \o SubscribedInOrder(mode)[i]]

\* C14: start() checks the store, connects the transport and starts its
\* background I/O, subscribes the patterns of the ingest mode (one pattern
\* in native mode; packets, status, internal in upload mode), sets _running
\* and then launches the webhook thread and the cleanup thread: _running is
\* set right after that sequence, a thread is launched right after _running,
\* and while start() is between its subscriptions and _running no thread of
\* this start exists.
C14_StartOrder ==
    /\ \A j \in StepsAt("running") :
          /\ j > Len(BeforeRunning(ingest_mode))
          /\ SubSeq(steps, j - Len(BeforeRunning(ingest_mode)), j - 1) =
                 BeforeRunning(ingest_mode)
    /\ \A j \in StepsAt("start webhook-processor") : steps[j - 1] = "running"
    /\ \A j \in StepsAt("start cleanup-scheduler") :
          \/ steps[j - 1] = "running"
          \/ steps[j - 1] = "start webhook-processor" /\ steps[j - 2] = "running"
    /\ AliveThreads # {} =>
          /\ StepsAt("running") # {}
          /\ Len(subscriptions) >= Len(SubscribedInOrder(ingest_mode))
    /\ \A k \in 1..Len(subscriptions) :
          subscriptions[k] =
              SubscribedInOrder(ingest_mode)
                  [((k - 1) % Len(SubscribedInOrder(ingest_mode))) + 1]
    /\ main_pc = "start_run" =>
          /\ worker[starts].pc = "none"
          /\ cleaner[starts].pc = "none"
          /\ Len(subscriptions) = starts * Len(SubscribedInOrder(ingest_mode))
             \/ StepsAt("db_check raises") \cup StepsAt("connect raises") # {}

C14_Witness ==
    /\ ingest_mode = INGEST_MODE_LETSMESH_UPLOAD
    /\ steps = <<"db_check", "connect", "start_background",
                 "subscribe meshcore/+/packets", "subscribe meshcore/+/status",
                 "subscribe meshcore/+/internal", "running",
                 "start webhook-processor", "start cleanup-scheduler",
                 "start health-reporter">>
    /\ running
    /\ \E w \in Workers : worker[w].pc = "lock" /\ cleaner[w].pc = "cleaning"

FailedStart(before, after) ==
    /\ Len(after) > Len(before)
    /\ Last(after) \in {"db_check raises", "connect raises"}

\* C15: every constructed subscriber has one of the two ingest modes, and an
\* argument that is neither raises in the constructor; no step changes the
\* mode; a start() that the store check or the connection attempt fails
\* leaves _running, the subscriptions and the threads as they were and the
\* subscriber unhealthy, so that a subscriber whose starts have all failed is
\* not running, has subscribed nothing and has launched no thread.
C15_FatalStartErrors ==
    /\ \A arg \in IngestModeArgs :
          Raised(IngestModeOf(arg)) <=>
              Lower(arg) \notin {"native", "letsmesh_upload"}
    /\ [](/\ ingest_mode \in {INGEST_MODE_NATIVE, INGEST_MODE_LETSMESH_UPLOAD}
          /\ StepsAt("start_background") = {} =>
                /\ ~running
                /\ ~IsHealthy
                /\ subscriptions = << >>
                /\ AliveThreads = {}
                /\ ~health_reporter)
    /\ [][ingest_mode' = ingest_mode]_vars
    /\ [][FailedStart(steps, steps') =>
             /\ running' = running
             /\ ~IsHealthy'
             /\ subscriptions' = subscriptions
             /\ worker' = worker
             /\ cleaner' = cleaner
             /\ webhook_thread' = webhook_thread
             /\ cleanup_thread' = cleanup_thread
             /\ health_reporter' = health_reporter
             /\ main_pc' = "idle"]_vars

C15_Witness ==
    /\ steps = <<"db_check", "connect raises">>
    /\ db_connected
    /\ ~mqtt_connected
    /\ ~running
    /\ main_pc = "idle"

\* C16: stop() on a subscriber that is not running changes nothing; every
\* stop() that goes on belongs to a start that set _running, and once it has
\* ended the transport has been stopped and disconnected exactly once per
\* such stop, the subscriber is not running and not connected, and the
\* health reporter is gone.
C16_StopIdempotent ==
    /\ (main_pc = "idle" /\ ~running) => ~ENABLED <<Stop>>_vars
    /\ Cardinality(StepsAt("clear running")) <= Cardinality(StepsAt("running"))
    /\ Cardinality(StepsAt("disconnect")) <= Cardinality(StepsAt("clear running"))
    /\ Cardinality(StepsAt("mqtt.stop")) = Cardinality(StepsAt("disconnect"))
    /\ (main_pc = "idle" /\ ~running) =>
          /\ Cardinality(StepsAt("disconnect")) =
                 Cardinality(StepsAt("clear running"))
          /\ StepsAt("clear running") # {} =>
                (Last(steps) \in {"disconnect", "db_check raises",
                                  "connect raises"}
                 /\ ~IsHealthy)
    /\ (main_pc = "idle" /\ steps # << >> /\ Last(steps) = "disconnect") =>
          (~running /\ ~mqtt_connected /\ ~health_reporter)

C16_Witness ==
    /\ main_pc = "idle"
    /\ ~running
    /\ Cardinality(StepsAt("running")) = 1
    /\ Cardinality(StepsAt("disconnect")) = 1
    /\ Last(steps) = "disconnect"
    /\ ENABLED Stop
    /\ ~ENABLED <<Stop>>_vars

\* stop() has stopped and disconnected the transport and has returned.  The
\* threads alive in such a state were alive at the teardown: a thread that
\* has ended stays ended.
TornDown == main_pc = "idle" /\ steps # << >> /\ Last(steps) = "disconnect"

\* C18: the two threads are launched after the subscriptions, and when
\* stop() has stopped and disconnected the transport no thread is still at
\* work.
C18_WorkersStoppedBeforeTeardown ==
    /\ AliveThreads # {} => subscriptions # << >>
    /\ \A j \in StepsAt("mqtt.stop") :
          /\ \E i \in 1..(j - 1) : steps[i] = "stop cleanup-scheduler"
          /\ \E i \in 1..(j - 1) : steps[i] = "stop webhook-processor"
    /\ TornDown => AliveThreads = {}

CleanerMoves ==
    {<<"none", "check">>, <<"check", "exited">>, <<"cleaning", "waiting">>,
     <<"waiting", "check">>, <<"sleeping", "waiting">>}

WorkerMoves ==
    {<<"none", "loop">>, <<"loop", "exited">>, <<"lock", "locked">>,
     <<"locked", "clear">>, <<"locked", "sleep">>, <<"clear", "dispatch">>,
     <<"dispatch", "dispatch">>, <<"dispatch", "sleep">>, <<"sleep", "loop">>}

\* C19: while _running is cleared a thread only finishes what it is at: the
\* cleanup thread ends the sleep or the run it is in, leaves its wait at the
\* next poll and ends at the loop test, without another sleep and without
\* another run; the webhook thread takes no new pass after its loop test,
\* dispatches the whole batch it holds and ends at the loop test; a thread
\* that has ended stays ended; and while _running is set neither thread ends.
C19_CooperativeCancellation ==
    [][ \A w \in Workers :
          /\ ~running =>
                /\ \/ cleaner'[w].pc = cleaner[w].pc
                   \/ <<cleaner[w].pc, cleaner'[w].pc>> \in CleanerMoves
                /\ \/ worker'[w] = worker[w]
                   \/ <<worker[w].pc, worker'[w].pc>> \in WorkerMoves
                /\ (worker[w].pc = "dispatch" /\ worker'[w].pc = "sleep") =>
                      Len(worker[w].batch) = 1
          /\ cleaner[w].pc = "exited" => cleaner'[w].pc = "exited"
          /\ worker[w].pc = "exited" => worker'[w].pc = "exited"
          /\ running =>
                /\ cleaner'[w].pc = "exited" => cleaner[w].pc = "exited"
                /\ worker'[w].pc = "exited" => worker[w].pc = "exited"
      ]_vars

C19_Witness ==
    /\ ~running
    /\ \E w \in Workers :
          /\ cleaner[w] = [pc |-> "exited", now |-> 0, i |-> 1]
          /\ worker[w].pc = "exited"
    /\ batches # << >>
    /\ Len(dispatched) = 1

\* stop() runs on the thread that called it, which keeps running; nothing
\* is assumed of the two background threads
FairStop ==
    /\ InitLifecycle
    /\ [][NextLifecycle]_vars
    /\ WF_vars(StopCleanupScheduler)
    /\ WF_vars(StopWebhookProcessor)
    /\ WF_vars(StopMqtt)

\* C17: a stop() that has gone on ends, whatever the two threads do and
\* whatever is in the webhook queue: each join returns, the transport is
\* disconnected and the subscriber is stopped.
C17_StopCompletes ==
    (main_pc = "stop_cleanup") ~>
        (TornDown /\ ~running /\ ~mqtt_connected /\ ~health_reporter)

C17_Witness ==
    /\ TornDown
    /\ ~running
    /\ webhook_queue # << >>
    /\ \E w \in Workers :
          /\ worker[w].pc = "lock"
          /\ cleaner[w].pc = "cleaning"


(***************************************************************************)
(* The cleanup thread against the clock                                    *)
(***************************************************************************)
InitCleanup ==
    /\ Init
    /\ ingest_mode = INGEST_MODE_NATIVE
    /\ ~webhooks
    /\ cleanup_enabled
    /\ ~node_cleanup_enabled

NextCleanup ==
    \/ StartConnect("ok")
    \/ StartRun
    \/ Stop
    \/ StopCleanupScheduler
    \/ StopWebhookProcessor
    \/ StopMqtt
    \/ \E w \in Workers : CleanupCheck(w)
    \/ \E w \in Workers, ok \in BOOLEAN, duration \in RunDurations :
          CleanupRun(w, ok, duration)
    \/ \E w \in Workers : CleanupWait(w)
    \/ \E w \in Workers : CleanupSleep(w)

SpecCleanup == InitCleanup /\ [][NextCleanup]_vars

\* C20: a cleanup thread that is past its first check has run a cleanup, and
\* the check times of any two runs lie at least cleanup_interval_hours apart.
C20_RunsSpacedByInterval ==
    /\ \A w \in Workers :
          cleaner[w].pc \in {"waiting", "sleeping"} =>
              \E k \in 1..Len(cleanup_log) : cleanup_log[k].worker = w
    /\ \A j \in 1..Len(cleanup_log) :
          \A k \in 1..(j - 1) :
              cleanup_log[j].checked_at - cleanup_log[k].checked_at >=
                  cleanup_interval_hours * SecondsPerHour


(***************************************************************************)
(* The cleanup functions against a filled database                         *)
(***************************************************************************)
\* Rows around the cutoffs of one and of two days before the clock, whose
\* first reading is 0
RowPool(table) ==
    CASE table = "advertisements" ->
             {EventRow(1, -SecondsPerDay - 1), EventRow(2, -SecondsPerDay)}
      [] table = "messages" ->
             {EventRow(1, -SecondsPerDay), EventRow(2, -SecondsPerDay + 1)}
      [] table = "telemetry" ->
             {EventRow(1, -2 * SecondsPerDay - 1),
              EventRow(2, -2 * SecondsPerDay), EventRow(3, 0)}
      [] table = "trace_paths" -> {EventRow(1, -SecondsPerDay + 2)}
      [] table = "event_logs" ->
             {EventRow(1, -SecondsPerDay - 1), EventRow(2, -SecondsPerDay - 1),
              EventRow(3, -SecondsPerDay + MaxTime)}
      [] table = "nodes" ->
             {NodeRow(1, None), NodeRow(2, I(-SecondsPerDay - 1)),
              NodeRow(3, I(-SecondsPerDay)),
              NodeRow(4, I(-2 * SecondsPerDay))}

NodeContents ==
    {{}, {NodeRow(1, None)}, {NodeRow(1, None), NodeRow(2, I(-SecondsPerDay - 1))},
     RowPool("nodes")}

Stores ==
    {[table \in Tables |->
         IF table = "advertisements" THEN a
         ELSE IF table = "nodes" THEN n
         ELSE IF filled THEN RowPool(table) ELSE {}] :
        a \in SUBSET RowPool("advertisements"), n \in NodeContents,
        filled \in BOOLEAN}

InitStore ==
    /\ \E db \in Stores, days \in CleanupDays :
          InitSubscriberOn(InitDecoder, db, days, days)
    /\ ingest_mode = INGEST_MODE_NATIVE
    /\ ~webhooks
    /\ cleanup_interval_hours = 1

NextStore ==
    \/ StartConnect("ok")
    \/ StartRun
    \/ \E w \in Workers : CleanupCheck(w)
    \/ \E w \in Workers, ok \in BOOLEAN, duration \in RunDurations :
          CleanupRun(w, ok, duration)
    \/ \E w \in Workers : CleanupWait(w)
    \/ \E w \in Workers : CleanupSleep(w)

SpecStore == InitStore /\ [][NextStore]_vars

\* The cleanup functions called directly, cleanup by the scheduler being
\* disabled
InitCleanupCalls ==
    /\ \E db \in Stores : InitSubscriberOn(InitDecoder, db, 1, 1)
    /\ ingest_mode = INGEST_MODE_NATIVE
    /\ ~webhooks
    /\ ~cleanup_enabled
    /\ ~node_cleanup_enabled
    /\ cleanup_interval_hours = 1

NextCleanupCalls ==
    \/ \E days \in CleanupDays, dry_run \in BOOLEAN, duration \in RunDurations :
          CallCleanupOldData(days, dry_run, duration)
    \/ \E days \in CleanupDays, dry_run \in BOOLEAN, duration \in RunDurations :
          CallCleanupInactiveNodes(days, dry_run, duration)

SpecCleanupCalls == InitCleanupCalls /\ [][NextCleanupCalls]_vars

NodeCalls ==
    {k \in 1..Len(cleanup_calls) :
        cleanup_calls[k].fn = "cleanup_inactive_nodes"}
DataCalls ==
    {k \in 1..Len(cleanup_calls) : cleanup_calls[k].fn = "cleanup_old_data"}

Deleted(call, table) == call.before[table] \ call.after[table]

\* The nodes of db last seen strictly before at minus days
StaleNodes(db, at, days) ==
    {r \in db["nodes"] :
        ~IsNone(r.last_seen) /\ r.last_seen.n < at - days * SecondsPerDay}

\* The rows of a table created strictly before at minus days
OldRows(db, table, at, days) ==
    {r \in db[table] : r.created_at < at - days * SecondsPerDay}

\* C21: every call of cleanup_inactive_nodes counts exactly the nodes whose
\* last-seen time is strictly older than the clock minus the inactivity
\* window, and unless it is a dry run deletes exactly those and nothing
\* else; a node whose last-seen time is null is never among them.
C21_UnseenNodesExempt ==
    \A k \in NodeCalls :
       \E call \in {cleanup_calls[k]} :
          /\ call.count =
                 Cardinality(StaleNodes(call.before, call.at, call.days))
          /\ Deleted(call, "nodes") =
                 (IF call.dry_run THEN {}
                  ELSE StaleNodes(call.before, call.at, call.days))
          /\ call.after["nodes"] \subseteq call.before["nodes"]
          /\ \A r \in call.before["nodes"] :
                IsNone(r.last_seen) => r \in call.after["nodes"]
          /\ \A table \in Tables \ {"nodes"} :
                call.after[table] = call.before[table]

\* A call that deleted a stale node and kept a never-seen node and a node
\* last seen exactly at the cutoff, after a dry run that counted only the
\* stale nodes beside the never-seen one
C21_Witness ==
    /\ Len(cleanup_calls) = 2
    /\ cleanup_calls[1].fn = "cleanup_inactive_nodes"
    /\ cleanup_calls[1].dry_run
    /\ cleanup_calls[1].count = 2
    /\ NodeRow(1, None) \in cleanup_calls[1].before["nodes"]
    /\ cleanup_calls[2].fn = "cleanup_inactive_nodes"
    /\ ~cleanup_calls[2].dry_run
    /\ cleanup_calls[2].days = 1
    /\ cleanup_calls[2].at = 0
    /\ cleanup_calls[2].before["nodes"] = RowPool("nodes")
    /\ cleanup_calls[2].after["nodes"] =
           {NodeRow(1, None), NodeRow(3, I(-SecondsPerDay))}

\* C22: a dry run of either cleanup function leaves every table as it was,
\* and returns the counts that the same call without dry run deletes from
\* the same database at the same clock reading.
C22_DryRunCountsWithoutDeleting ==
    /\ \A k \in 1..Len(cleanup_calls) :
          cleanup_calls[k].dry_run =>
              cleanup_calls[k].after = cleanup_calls[k].before
    /\ \A k \in DataCalls :
          cleanup_calls[k].dry_run =>
             \E call \in {cleanup_calls[k]} :
             \E real \in {CleanupOldData(Session(call.before), call.at,
                                         call.days, FALSE)} :
                /\ call.stats = real.stats
                /\ call.count = real.stats.total_deleted
                /\ call.stats.advertisements_deleted =
                       Cardinality(call.before["advertisements"] \
                                   real.session.committed["advertisements"])
                /\ call.stats.messages_deleted =
                       Cardinality(call.before["messages"] \
                                   real.session.committed["messages"])
                /\ call.stats.telemetry_deleted =
                       Cardinality(call.before["telemetry"] \
                                   real.session.committed["telemetry"])
                /\ call.stats.trace_paths_deleted =
                       Cardinality(call.before["trace_paths"] \
                                   real.session.committed["trace_paths"])
                /\ call.stats.event_logs_deleted =
                       Cardinality(call.before["event_logs"] \
                                   real.session.committed["event_logs"])
    /\ \A k \in NodeCalls :
          cleanup_calls[k].dry_run =>
             \E call \in {cleanup_calls[k]} :
             \E real \in {CleanupInactiveNodes(Session(call.before), call.at,
                                               call.days, FALSE)} :
                /\ call.count = real.count
                /\ call.count =
                       Cardinality(call.before["nodes"] \
                                   real.session.committed["nodes"])

\* A dry run of cleanup_old_data that counted rows in several tables,
\* followed at the same clock reading by the call without dry run, which
\* returned the same counts and deleted that many rows
C22_Witness ==
    /\ Len(cleanup_calls) = 2
    /\ cleanup_calls[1].fn = "cleanup_old_data"
    /\ cleanup_calls[1].dry_run
    /\ cleanup_calls[1].stats.advertisements_deleted = 1
    /\ cleanup_calls[1].stats.event_logs_deleted = 2
    /\ cleanup_calls[1].count >= 3
    /\ cleanup_calls[2].fn = "cleanup_old_data"
    /\ ~cleanup_calls[2].dry_run
    /\ cleanup_calls[2].at = cleanup_calls[1].at
    /\ cleanup_calls[2].days = cleanup_calls[1].days
    /\ cleanup_calls[2].stats = cleanup_calls[1].stats
    /\ Cardinality(UNION {Deleted(cleanup_calls[2], EventTables[i]) :
                             i \in 1..Len(EventTables)}) >= 2
    /\ cleanup_calls[2].after # cleanup_calls[2].before

\* The count a run reported for an event table
TableCount(stats, table) ==
    CASE table = "advertisements" -> stats.advertisements_deleted
      [] table = "messages" -> stats.messages_deleted
      [] table = "telemetry" -> stats.telemetry_deleted
      [] table = "trace_paths" -> stats.trace_paths_deleted
      [] table = "event_logs" -> stats.event_logs_deleted

EventTableSet == {EventTables[i] : i \in 1..Len(EventTables)}

\* C23: a scheduled run that did not raise deletes from each event table
\* exactly the rows created strictly before its clock reading minus the
\* retention window when event cleanup is enabled and none otherwise, and
\* exactly the stale nodes when node cleanup is enabled and none otherwise;
\* the counts it reports are those of the rows deleted and the total is the
\* sum of the five.  A run that raised deletes no row of a disabled family.
C23_ScheduledRunDeletesOldRows ==
    \A k \in 1..Len(cleanup_log) :
       \E run \in {cleanup_log[k]} :
          /\ run.ok =>
                /\ \A table \in EventTableSet :
                      Deleted(run, table) =
                          (IF cleanup_enabled
                           THEN OldRows(run.before, table, run.events_at,
                                        cleanup_retention_days)
                           ELSE {})
                /\ Deleted(run, "nodes") =
                       (IF node_cleanup_enabled
                        THEN StaleNodes(run.before, run.nodes_at,
                                        node_cleanup_days)
                        ELSE {})
                /\ IsNone(run.stats) <=> ~cleanup_enabled
                /\ IsNone(run.nodes_deleted) <=> ~node_cleanup_enabled
                /\ cleanup_enabled =>
                      /\ \A table \in EventTableSet :
                            TableCount(run.stats, table) =
                                Cardinality(Deleted(run, table))
                      /\ run.stats.total_deleted =
                             run.stats.advertisements_deleted
                             + run.stats.messages_deleted
                             + run.stats.telemetry_deleted
                             + run.stats.trace_paths_deleted
                             + run.stats.event_logs_deleted
                /\ node_cleanup_enabled =>
                      run.nodes_deleted =
                          I(Cardinality(Deleted(run, "nodes")))
          /\ \A table \in Tables : run.after[table] \subseteq run.before[table]
          /\ ~cleanup_enabled =>
                \A table \in EventTableSet : Deleted(run, table) = {}
          /\ ~node_cleanup_enabled => Deleted(run, "nodes") = {}

\* A run with event cleanup enabled and node cleanup disabled that deleted
\* old rows of several tables, kept the row created exactly at the cutoff and
\* every node, stale ones included, and reported the sum of the counts
C23_Witness ==
    /\ cleanup_enabled
    /\ ~node_cleanup_enabled
    /\ cleanup_retention_days = 1
    /\ Len(cleanup_log) = 1
    /\ cleanup_log[1].ok
    /\ cleanup_log[1].events_at = 0
    /\ cleanup_log[1].before["advertisements"] = RowPool("advertisements")
    /\ cleanup_log[1].after["advertisements"] = {EventRow(2, -SecondsPerDay)}
    /\ cleanup_log[1].stats.advertisements_deleted = 1
    /\ cleanup_log[1].stats.event_logs_deleted = 2
    /\ cleanup_log[1].stats.telemetry_deleted = 2
    /\ cleanup_log[1].stats.total_deleted = 5
    /\ cleanup_log[1].before["nodes"] = RowPool("nodes")
    /\ cleanup_log[1].after["nodes"] = RowPool("nodes")

(***************************************************************************)
(* The hash functions                                                      *)
(***************************************************************************)
InitHash ==
    /\ Init
    /\ ingest_mode = INGEST_MODE_NATIVE
    /\ ~webhooks
    /\ ~cleanup_enabled
    /\ ~node_cleanup_enabled
    /\ cleanup_interval_hours = 1

NextHash ==
    \/ \E m \in MessageReports : HashMessage(m)
    \/ \E a \in Advertisements, bucket_minutes \in BucketMinutes :
          HashAdvertisement(a, bucket_minutes)
    \/ \E initiator_tag \in InitiatorTags, receiver \in Receivers :
          HashTrace(initiator_tag, receiver)
    \/ \E parsed_data \in ParsedData, received_at \in ReceivedAts \cup {None},
          receiver \in Receivers :
          HashTelemetry(S("k"), parsed_data, received_at, 5, receiver)

SpecHash == InitHash /\ [][NextHash]_vars

HashCalls(fn) == {k \in 1..Len(hash_calls) : hash_calls[k].fn = fn}

\* C24: two calls of the message hash with equal text, sender prefix,
\* channel index, sender timestamp and type return the same hash, whichever
\* receiver reported the message, whenever it was received and whichever call
\* came first.
C24_MessageHashOfFiveFields ==
    \A i \in HashCalls("message") :
       \A j \in HashCalls("message") :
          hash_calls[i].args = hash_calls[j].args =>
              hash_calls[i].result = hash_calls[j].result

\* The same message, all five fields present, reported by two receivers at
\* two times and hashed to one digest
C24_Witness ==
    /\ Len(hash_calls) = 2
    /\ hash_calls[1].fn = "message"
    /\ hash_calls[2].fn = "message"
    /\ hash_calls[1].args =
           <<S("hi"), S("AABBCCDDEEFF"), I(0),
             DT(2024, 1, 1, 0, 4, 59, 0, 0), I(0)>>
    /\ hash_calls[2].args = hash_calls[1].args
    /\ hash_calls[1].receiver # hash_calls[2].receiver
    /\ hash_calls[1].receiver[1] = "r2"
    /\ ~Raised(hash_calls[1].result)
    /\ hash_calls[1].result = hash_calls[2].result
    /\ hash_calls[1].result.of =
           "hi|AABBCCDDEEFF|0|2024-01-01T00:04:59+00:00|0"

\* The argument that holds received_at in a call of the advertisement or
\* telemetry hash
ReceivedAtArg(call) == IF call.fn = "advertisement" THEN 5 ELSE 3

BucketMinutesArg(call) == IF call.fn = "advertisement" THEN 6 ELSE 4

\* floor(epochSeconds / (bucketMinutes * 60)) of a receive time
BucketOf(received_at, bucket_minutes) ==
    EpochSeconds(received_at) \div (bucket_minutes * 60)

SameBucket(a, b, bucket_minutes) ==
    IF IsNone(a) \/ IsNone(b) THEN IsNone(a) /\ IsNone(b)
    ELSE BucketOf(a, bucket_minutes) = BucketOf(b, bucket_minutes)

\* The calls agree in every argument but received_at
OtherwiseIdentical(c1, c2) ==
    /\ c1.fn = c2.fn
    /\ \A n \in 1..Len(c1.args) :
          n # ReceivedAtArg(c1) => c1.args[n] = c2.args[n]

\* C25: two calls of the advertisement hash, or of the telemetry hash, that
\* differ at most in received_at return the same hash exactly when the two
\* receive times lie in the same bucket or are both absent.
C25_SameBucketSameHash ==
    \A i \in HashCalls("advertisement") \cup HashCalls("telemetry") :
       \A j \in HashCalls("advertisement") \cup HashCalls("telemetry") :
          OtherwiseIdentical(hash_calls[i], hash_calls[j]) =>
             ((hash_calls[i].result = hash_calls[j].result)
              <=> SameBucket(hash_calls[i].args[ReceivedAtArg(hash_calls[i])],
                             hash_calls[j].args[ReceivedAtArg(hash_calls[i])],
                             hash_calls[i].args[
                                 BucketMinutesArg(hash_calls[i])]))

\* An advertisement received in the first second of a five-minute bucket and
\* again in its last microsecond, hashed to one digest
C25_Witness ==
    /\ Len(hash_calls) = 2
    /\ hash_calls[1].fn = "advertisement"
    /\ hash_calls[2].fn = "advertisement"
    /\ hash_calls[1].args[5] = BucketStart
    /\ hash_calls[2].args[5] = DT(2024, 1, 1, 0, 4, 59, 999999, 0)
    /\ hash_calls[1].args[6] = 5
    /\ OtherwiseIdentical(hash_calls[1], hash_calls[2])
    /\ hash_calls[1].result = hash_calls[2].result
    /\ hash_calls[1].result.of = "k|n||0|1704067200"

\* C26: no call of a hash function raises; each returns a digest of 32
\* hexadecimal characters.
C26_HashNeverRaises ==
    \A k \in 1..Len(hash_calls) :
       /\ ~Raised(hash_calls[k].result)
       /\ hash_calls[k].result.length = 32

\* The two values are equal, mappings being compared by their keys and the
\* values under them and not by the order of the keys
RECURSIVE SameValue(_, _)
SameValue(a, b) ==
    IF IsDict(a) /\ IsDict(b)
    THEN /\ Len(a.d) = Len(b.d)
         /\ \A n \in 1..Len(a.d) :
               /\ HasKey(b.d, a.d[n][1])
               /\ SameValue(a.d[n][2], Get(b.d, a.d[n][1]))
    ELSE a = b

\* C27: two calls of the telemetry hash whose parsed data hold the same keys
\* and values, in whatever order at whatever depth, and whose other arguments
\* are equal return the same hash.
C27_KeyOrderIrrelevant ==
    \A i \in HashCalls("telemetry") :
       \A j \in HashCalls("telemetry") :
          (/\ hash_calls[i].args[1] = hash_calls[j].args[1]
           /\ hash_calls[i].args[3] = hash_calls[j].args[3]
           /\ hash_calls[i].args[4] = hash_calls[j].args[4]
           /\ SameValue(hash_calls[i].args[2], hash_calls[j].args[2]))
          => hash_calls[i].result = hash_calls[j].result


(***************************************************************************)
(* The decoder built from configured channel keys                          *)
(***************************************************************************)
MaxKeyMsgs == 2

\* letsmesh_decoder_channel_keys: labelled and bare keys, 0x prefixes and
\* lowercase hex, the same key twice, a built-in key, entries that are not
\* hex, two keys with the same channel hash, and an odd number of hex digits
ChannelKeyLists ==
    { << >>,
      <<"0xab", "x:0XAB">>,
      <<"b=zz", "CD">>,
      <<"one=00", "two=9C">>,
      <<"ABC">>,
      <<" c = 0xCD ", "zz">>,
      <<"#d=12", "=EF">>,
      <<"mine=8b3387e9c5cdea6ac9e5edbaa115cd72", "12">>,
      <<"q:r=56", "00", "56">>,
      <<"public:AB", "#Public=CD">> }

\* the decoder's JSON for a channel message on the channel with hash h
DecodedOnChannel(h) ==
    D(<< <<"payloadType", I(5)>>,
         <<"payload",
           D(<< <<"decoded",
                  D(<< <<"channelHash", S(h)>>,
                       <<"decrypted",
                         D(<< <<"message", S("hi")>> >>)>> >>)>> >>)>> >>)

DecodedChannelHashes == {"6E", "6e", "11", "D9", "08", "9A", "77"}

KeyMessages ==
    {Msg(Feed("packets"), RawPacket(raw)) : raw \in {S("0A"), S(" 0B ")}}

KeyEnvs ==
    {Env(TRUE, ProcJson(DecodedOnChannel(h))) : h \in DecodedChannelHashes}

\* A constructor that raised leaves no subscriber: start() is never called
\* and the state has no successor.
InitKeys ==
    /\ \E channel_keys \in ChannelKeyLists :
          InitSubscriberOf(channel_keys, NewDecoder(TRUE, TRUE, channel_keys),
                           EmptyStore, 1, 1)
    /\ ingest_mode = INGEST_MODE_LETSMESH_UPLOAD
    /\ ~webhooks
    /\ ~cleanup_enabled
    /\ ~node_cleanup_enabled
    /\ cleanup_interval_hours = 1

NextKeys ==
    \/ StartConnect("ok")
    \/ StartRun
    \/ \E m \in KeyMessages :
          \E env \in KeyEnvs :
              HandleMqttMessageUpTo(MaxKeyMsgs, "cb1", m, env)
    \/ DispatchEvent("cb1", "stored")

SpecKeys == InitKeys /\ [][NextKeys]_vars

BuiltinKeyHexes ==
    [i \in 1..Len(BuiltinChannelKeys) |-> BuiltinChannelKeys[i][2]]

\* the key hex a configured entry stands for, None if the entry is not hex
ConfiguredKeyHex(i) ==
    Let([entry \in {NormalizeChannelEntry(S(letsmesh_decoder_channel_keys[i]))} |->
       IF IsNone(entry) \/ Raised(entry) THEN None ELSE S(entry.key_hex)])

\* C28: for every list of configured channel keys the decoder is built and
\* its key list starts with the built-in keys, holds uppercase hex only and
\* no key twice, holds the key of every configured entry that is hex, in the
\* order of the first occurrences, and nothing else; and every command line
\* of the decoder ends with --key and that list.
C28_NormalizedKeyList ==
    /\ ~Raised(decoder)
    /\ ~Raised(decoder) =>
         LET keys == decoder.channel_keys
             n == Len(BuiltinKeyHexes)
             args == DOMAIN letsmesh_decoder_channel_keys
         IN /\ Len(keys) >= n
            /\ SubSeq(keys, 1, n) = BuiltinKeyHexes
            /\ \A i, j \in DOMAIN keys : keys[i] = keys[j] => i = j
            /\ \A i \in DOMAIN keys :
                  keys[i] # "" /\ AllIn(keys[i], HexDigits)
            /\ \A i \in args :
                  ~IsNone(ConfiguredKeyHex(i)) =>
                      \E j \in DOMAIN keys : keys[j] = ConfiguredKeyHex(i).s
            /\ \A j \in (n + 1)..Len(keys) :
                  \E i \in args : ConfiguredKeyHex(i) = S(keys[j])
            /\ \A j, k \in (n + 1)..Len(keys) :
                  j < k =>
                      \E i \in args :
                          /\ ConfiguredKeyHex(i) = S(keys[j])
                          /\ \A l \in 1..i : ConfiguredKeyHex(l) # S(keys[k])
            /\ \A id \in DOMAIN msgs :
                  \A r \in DOMAIN msgs[id].commands :
                      LET command == msgs[id].commands[r]
                      IN SubSeq(command, 5, Len(command)) = <<"--key">> \o keys

\* the label channel_name_from_decoded resolves for the channel hash h, as
\* _format_channel_label renders it
RenderedChannelName(h) ==
    Let([channel_name \in {ChannelNameFromDecoded(decoder, DecodedOnChannel(h))} |->
       IF IsNone(channel_name) THEN None
       ELSE FormatChannelLabel(channel_name, S(h), None)])

\* the first label registered for the channel hash h, rendered; None if no
\* labelled key has that hash
FirstRegisteredLabel(h) ==
    Let([labelled \in {SelectSeq(decoder.channel_key_infos,
                          LAMBDA info : info.channel_hash = Upper(h)
                                        /\ Truthy(info.label))} |->
       IF labelled = << >> THEN None
       ELSE FormatChannelLabel(Head(labelled).label, S(h), None)])

\* C29: for every configured key set and channel hash h, the rendered label
\* of channel_name_from_decoded is the label channel_labels_by_index() holds
\* for int(h, 16), and both are the first label registered for that hash;
\* the channel_name of an emitted channel message is that label.
C29_NameAndIndexLookupsAgree ==
    ~Raised(decoder) =>
        /\ \A h \in DecodedChannelHashes :
              /\ RenderedChannelName(h)
                     = Get(ChannelLabelsByIndex(decoder), ChannelIdx(Upper(h)))
              /\ RenderedChannelName(h) = FirstRegisteredLabel(h)
        /\ \A id \in DOMAIN msgs :
              LET ev == msgs[id].parsed
                  h == ExtractLetsmeshDecoderChannelHash(msgs[id].decoded)
              IN (ev.t = "event" /\ ev.event_type = "channel_msg_recv"
                     /\ Truthy(h)
                     /\ HasKey(ChannelLabelsByIndex(decoder), ChannelIdx(h.s)))
                  => Get(ev.payload, "channel_name")
                         = Get(ChannelLabelsByIndex(decoder), ChannelIdx(h.s))


(***************************************************************************)
(* The sender key prefix of a message event                                *)
(***************************************************************************)
MaxSenderMsgs == 2

\* Sender-like fields of an upload payload: none, a payload-level
\* pubkey_prefix that is hex or not, source hashes of 8 and of 16 hex
\* characters, a sender of 7 hex characters, a source hash that is not hex
\* before a sender that is
PayloadSenders ==
    { << >>,
      << <<"pubkey_prefix", S("112233445566")>> >>,
      << <<"pubkey_prefix", S("zz")>> >>,
      << <<"sourceHash", S("1A2B3C4D")>> >>,
      << <<"sourceHash", S("1a2b3c4d5e6f7788")>> >>,
      << <<"sender", S("1A2B3C4")>> >>,
      << <<"sourceHash", S("zz")>>, <<"sender", S("1A2B3C4D5E6F")>> >> }

DecryptedSenders == {None, S("Alice"), S(" 0xaabbccddeeff0011 ")}
DecodedSourceHashes == {None, S("aabbccdd"), S("AABBCCDDEEFF")}

\* the decoder's JSON for a channel message with the sender and source hash
DecodedFrom(sender, source_hash) ==
    D(<< <<"payloadType", I(5)>>,
         <<"payload",
           D(<< <<"decoded",
                  D(PutIfSet(
                      << <<"decrypted",
                           D(PutIfSet(<< <<"message", S("hi")>> >>,
                                      "sender", sender))>> >>,
                      "sourceHash", source_hash))>> >>)>> >>)

SenderMessages ==
    {Msg(Feed("packets"), RawPacket(S("0A")) \o fields) :
         fields \in PayloadSenders}

SenderEnvs ==
    {Env(TRUE, ProcJson(DecodedFrom(sender, source_hash))) :
         sender \in DecryptedSenders, source_hash \in DecodedSourceHashes}

InitSender ==
    /\ InitSubscriber
    /\ ingest_mode = INGEST_MODE_LETSMESH_UPLOAD
    /\ ~webhooks
    /\ ~cleanup_enabled
    /\ ~node_cleanup_enabled
    /\ cleanup_interval_hours = 1

NextSender ==
    \/ StartConnect("ok")
    \/ StartRun
    \/ \E m \in SenderMessages :
          \E env \in SenderEnvs :
              HandleMqttMessageUpTo(MaxSenderMsgs, "cb1", m, env)
    \/ DispatchEvent("cb1", "stored")

SpecSender == InitSender /\ [][NextSender]_vars

\* the sender candidates of message id in the order of the statement:
\* decoded sender, decoded source hash, payload-level fields
SenderCandidates(id) ==
    LET decoded == ExtractLetsmeshDecoderPayload(msgs[id].decoded)
        decrypted == DecoderDecrypted(msgs[id].decoded)
    IN <<IF IsNone(decrypted) THEN None ELSE VGet(decrypted, "sender"),
         IF IsNone(decoded) THEN None ELSE VGet(decoded, "sourceHash")>>
       \o [i \in 1..Len(SenderKeys) |-> Get(msgs[id].payload, SenderKeys[i])]

\* a candidate as hex: stripped, without 0x prefix, uppercase
CandidateHex(value) ==
    Upper(RemovePrefix(RemovePrefix(Strip(value.s), "0x"), "0X"))

\* a candidate is accepted when it is hex of at least 8 characters
Accepted(value) ==
    IsStr(value) /\ CandidateHex(value) # ""
        /\ AllIn(CandidateHex(value), HexDigits) /\ Len(CandidateHex(value)) >= 8

\* C30: in every emitted message event, pubkey_prefix is absent exactly when
\* no sender candidate is accepted, and otherwise is 12 uppercase hex
\* characters, the first 12 of the first accepted candidate among decoded
\* sender, decoded source hash and the payload-level sender fields.
C30_SenderPrefixNormalized ==
    \A id \in DOMAIN msgs :
        LET ev == msgs[id].parsed
            candidates == SenderCandidates(id)
            accepted == {i \in DOMAIN candidates : Accepted(candidates[i])}
        IN (ev.t = "event"
               /\ ev.event_type \in {"channel_msg_recv", "contact_msg_recv"})
            => IF accepted = {}
               THEN ~HasKey(ev.payload, "pubkey_prefix")
               ELSE LET first == CHOOSE i \in accepted :
                                     \A j \in accepted : i <= j
                        prefix == Get(ev.payload, "pubkey_prefix")
                    IN /\ IsStr(prefix)
                       /\ Len(prefix.s) = 12
                       /\ AllIn(prefix.s, HexDigits)
                       /\ prefix.s = SubSeq(CandidateHex(candidates[first]),
                                            1, 12)


(***************************************************************************)
(* Advertisements from decoded packets                                     *)
(***************************************************************************)
MaxAdvertMsgs == 1

\* packets-feed payloads: the packet type as a string, as an int, and as the
\* float json.loads gives for 1e999
AdvertPayloads ==
    { << <<"raw", S("0A")>>, <<"packet_type", packet_type>> >> :
          packet_type \in {S("4"), I(11), FInf} }

\* appData.deviceRole: absent, the role codes, a code out of range, NaN
DeviceRoles == {None, I(0), I(1), I(2), I(3), I(4), I(5), FNan}

\* appData.location: absent, an int and a string, a word, an int beyond the
\* range of float
Locations ==
    { None,
      D(<< <<"latitude", I(42)>>, <<"longitude", S("-71.5")>> >>),
      D(<< <<"latitude", S("north")>>, <<"longitude", I(1)>> >>),
      D(<< <<"latitude", BigInt>>, <<"longitude", I(1)>> >>) }

AdvertNames == {None, S("Relay North")}

\* the decoder's JSON for an advertisement packet
DecodedAdvertOf(payload_type, public_key, device_role, location, name) ==
    D(<< <<"payloadType", I(payload_type)>>,
         <<"payload",
           D(<< <<"decoded",
                  D(<< <<"type", I(payload_type)>>,
                       <<"publicKey", public_key>>,
                       <<"appData",
                         D(PutIfSet(PutIfSet(PutIfSet(<< >>,
                               "name", name),
                               "deviceRole", device_role),
                               "location", location))>> >>)>> >>)>> >>)

AdvertMessages == {Msg(Feed("packets"), payload) : payload \in AdvertPayloads}

AdvertEnvs ==
    {Env(TRUE, ProcJson(DecodedAdvertOf(payload_type, public_key, device_role,
                                        location, name))) :
         payload_type \in {4, 11},
         public_key \in {S(" 0x" \o NodeKey), S("ABCD")},
         device_role \in DeviceRoles,
         location \in Locations,
         name \in AdvertNames}

InitAdvert ==
    /\ InitSubscriber
    /\ ingest_mode = INGEST_MODE_LETSMESH_UPLOAD
    /\ ~webhooks
    /\ ~cleanup_enabled
    /\ ~node_cleanup_enabled
    /\ cleanup_interval_hours = 1

NextAdvert ==
    \/ StartConnect("ok")
    \/ StartRun
    \/ \E m \in AdvertMessages :
          \E env \in AdvertEnvs :
              HandleMqttMessageUpTo(MaxAdvertMsgs, "cb1", m, env)
    \/ DispatchEvent("cb1", "stored")

SpecAdvert == InitAdvert /\ [][NextAdvert]_vars

RoleNames == <<"chat", "repeater", "room", "companion">>

\* message id is a packets-feed message whose decoder output is of payload
\* type 4 or 11 and holds a full public key
IsDecodedAdvert(id) ==
    /\ OnFeed(id, "packets")
    /\ IsDict(msgs[id].decoded)
    /\ VGet(msgs[id].decoded, "payloadType") \in {I(4), I(11)}
    /\ ~IsNone(ExtractLetsmeshDecoderPayload(msgs[id].decoded))
    /\ Truthy(NormalizeFullPublicKey(
           VGet(ExtractLetsmeshDecoderPayload(msgs[id].decoded), "publicKey")))

\* C31: every packets-feed message whose decoder payload type is 4 or 11
\* (and whose decoder output holds a full key) yields an advertisement event
\* with a public_key of 64 uppercase hex characters; role codes 1..4 give
\* chat, repeater, room, companion; role code 0 with no other hint of a
\* type gives no adv_type; a numeric latitude or longitude of appData is
\* emitted as a float lat or lon.
C31_AdvertisementFromDecodedPacket ==
    \A id \in MsgIds :
        IsDecodedAdvert(id) =>
            LET ev == msgs[id].parsed
                decoded == ExtractLetsmeshDecoderPayload(msgs[id].decoded)
                app_data == VGet(decoded, "appData")
                role == VGet(app_data, "deviceRole")
                location == VGet(app_data, "location")
            IN /\ ev.t = "event"
               /\ ev.event_type = "advertisement"
               /\ Len(Get(ev.payload, "public_key").s) = 64
               /\ AllIn(Get(ev.payload, "public_key").s, HexDigits)
               /\ \A code \in 1..4 :
                     role = I(code) =>
                         Get(ev.payload, "adv_type") = S(RoleNames[code])
               /\ (role = I(0) /\ ~HasKey(app_data.d, "name"))
                     => ~HasKey(ev.payload, "adv_type")
               /\ IsDict(location) =>
                     /\ (IsInt(VGet(location, "latitude"))
                            \/ IsFloat(VGet(location, "latitude")))
                           => IsFloat(Get(ev.payload, "lat"))
                     /\ (IsInt(VGet(location, "longitude"))
                            \/ IsFloat(VGet(location, "longitude")))
                           => IsFloat(Get(ev.payload, "lon"))


(***************************************************************************)
(* Packet Decoder Bridge under concurrent ingestion callbacks              *)
(*                                                                         *)
(* decode_payload and _is_command_available take no lock, so two callbacks *)
(* that the transport runs at once interleave between their reads and      *)
(* writes of the decoder's fields.  Each callback thread is at one of the  *)
(* positions                                                               *)
(*   idle -> get -> contains -> checked -> set_checked -> which ->         *)
(*   warn_test -> warn -> run -> insert -> len -> pop -> idle              *)
(* and carries the locals of decode_payload.  decode_hist records the last  *)
(* return and the last eviction (so a predicate of the state speaks about  *)
(* each of them when it is made), and how often the command was looked up  *)
(* and the warning logged.                                                 *)
(***************************************************************************)
MaxThreadCalls == 4
DecodeRawHexes == {"0A", "0B", "0C", "0D"}
ThreadRuns == {ProcJson(DecodedChannelText)}

\* everything but the decoder and the decode threads
thread_frame == <<config_vars, hash_vars, trace_vars, lifecycle_vars, cleanup_vars, history_vars, handlers, webhook_queue, webhook_lock, cb, worker>>

\* `return value` of decode_payload in thread t; held is what the cache held
\* for the key when a cache hit was decided
DecodeReturn(t, hit, value, held) ==
    /\ dthread' = [dthread EXCEPT ![t] = IdleDecode]
    /\ decode_hist' = [decode_hist EXCEPT !.returned =
           <<[clean_hex |-> dthread[t].clean_hex, hit |-> hit,
              value |-> value, held |-> held]>>]

\* _decode_raw once _is_command_available has returned `available`
AfterAvailable(t, available) ==
    IF available THEN [dthread EXCEPT ![t].pc = "run"]
    ELSE [dthread EXCEPT ![t].pc = "insert", ![t].decoded = None]

\* decode_payload, lines 180-185: raw_hex is a non-blank string
DecodeBegin(t, raw_hex) ==
    /\ dthread[t].pc = "idle"
    /\ decode_hist.calls < MaxThreadCalls
    /\ dthread' = [dthread EXCEPT ![t] =
           [IdleDecode EXCEPT !.pc = "get", !.clean_hex = Strip(raw_hex)]]
    /\ decode_hist' = [decode_hist EXCEPT !.calls = @ + 1]
    /\ UNCHANGED <<thread_frame, decoder>>

\* line 186: cached = self._decode_cache.get(clean_hex)
DecodeGet(t) ==
    /\ dthread[t].pc = "get"
    /\ dthread' = [dthread EXCEPT ![t].pc = "contains",
                                  ![t].cached = Get(decoder.cache, dthread[t].clean_hex)]
    /\ UNCHANGED <<thread_frame, decoder, decode_hist>>

\* lines 187-188: if clean_hex in self._decode_cache: return cached;
\* otherwise _decode_raw begins (lines 199-200)
DecodeContains(t) ==
    /\ dthread[t].pc = "contains"
    /\ IF HasKey(decoder.cache, dthread[t].clean_hex)
       THEN DecodeReturn(t, TRUE, dthread[t].cached,
                         Get(decoder.cache, dthread[t].clean_hex))
       ELSE /\ dthread' = IF decoder.enabled
                          THEN [dthread EXCEPT ![t].pc = "checked"]
                          ELSE AfterAvailable(t, FALSE)
            /\ UNCHANGED decode_hist
    /\ UNCHANGED <<thread_frame, decoder>>

\* _is_command_available, lines 250-251: if self._checked_command:
\* return self._command_available.  A read while no lookup has stored its
\* result yet is counted.
CommandCheckedTest(t) ==
    /\ dthread[t].pc = "checked"
    /\ IF decoder.checked
       THEN /\ dthread' = AfterAvailable(t, decoder.available)
            /\ decode_hist' = [decode_hist EXCEPT !.unrecorded_reads =
                   IF decode_hist.checks = 0 THEN @ + 1 ELSE @]
       ELSE /\ dthread' = [dthread EXCEPT ![t].pc = "set_checked"]
            /\ UNCHANGED decode_hist
    /\ UNCHANGED <<thread_frame, decoder>>

\* line 253: self._checked_command = True
CommandSetChecked(t) ==
    /\ dthread[t].pc = "set_checked"
    /\ decoder' = [decoder EXCEPT !.checked = TRUE]
    /\ dthread' = [dthread EXCEPT ![t].pc = "which"]
    /\ UNCHANGED <<thread_frame, decode_hist>>

\* lines 254-261: the lookup of the command and the store of its result
CommandWhich(t, command_exists) ==
    /\ dthread[t].pc = "which"
    /\ decoder' = [decoder EXCEPT !.available = decoder.has_command /\ command_exists]
    /\ dthread' = [dthread EXCEPT ![t].pc = "warn_test"]
    /\ decode_hist' = [decode_hist EXCEPT !.checks = @ + 1]
    /\ UNCHANGED thread_frame

\* line 263: if not self._command_available and not
\* self._warned_unavailable; otherwise line 272 returns
CommandWarnTest(t) ==
    /\ dthread[t].pc = "warn_test"
    /\ dthread' = IF ~decoder.available /\ ~decoder.warned
                  THEN [dthread EXCEPT ![t].pc = "warn"]
                  ELSE AfterAvailable(t, decoder.available)
    /\ UNCHANGED <<thread_frame, decoder, decode_hist>>

\* lines 264-272: the flag, the warning, and the return
CommandWarn(t) ==
    /\ dthread[t].pc = "warn"
    /\ decoder' = [decoder EXCEPT !.warned = TRUE]
    /\ decode_hist' = [decode_hist EXCEPT !.warnings = @ + 1]
    /\ dthread' = AfterAvailable(t, decoder.available)
    /\ UNCHANGED thread_frame

\* _decode_raw, lines 204-246: the subprocess and what it resolves to
DecodeRun(t, proc) ==
    /\ dthread[t].pc = "run"
    /\ dthread' = [dthread EXCEPT ![t].pc = "insert",
                                  ![t].decoded = SubprocessResult(proc)]
    /\ UNCHANGED <<thread_frame, decoder, decode_hist>>

\* line 190: self._decode_cache[clean_hex] = decoded
DecodeInsert(t) ==
    /\ dthread[t].pc = "insert"
    /\ decoder' = [decoder EXCEPT !.cache =
                       Put(@, dthread[t].clean_hex, dthread[t].decoded)]
    /\ dthread' = [dthread EXCEPT ![t].pc = "len"]
    /\ UNCHANGED <<thread_frame, decode_hist>>

\* lines 191-194: the length test, and next(iter(self._decode_cache)) when
\* the cache is over its size; otherwise return decoded
DecodeLen(t) ==
    /\ dthread[t].pc = "len"
    /\ IF Len(decoder.cache) > DecodeCacheMaxsize
       THEN /\ dthread' = [dthread EXCEPT ![t].pc = "pop",
                                          ![t].oldest = decoder.cache[1][1]]
            /\ UNCHANGED decode_hist
       ELSE DecodeReturn(t, FALSE, dthread[t].decoded, dthread[t].decoded)
    /\ UNCHANGED <<thread_frame, decoder>>

\* line 193: self._decode_cache.pop(key) raises KeyError for a key that is
\* no longer in the dict; then line 194 returns decoded
DecodePop(t) ==
    /\ dthread[t].pc = "pop"
    /\ IF HasKey(decoder.cache, dthread[t].oldest)
       THEN /\ decoder' = [decoder EXCEPT !.cache = Pop(@, dthread[t].oldest)]
            /\ dthread' = [dthread EXCEPT ![t] = IdleDecode]
            /\ decode_hist' = [decode_hist EXCEPT
                   !.returned = <<[clean_hex |-> dthread[t].clean_hex,
                                   hit |-> FALSE,
                                   value |-> dthread[t].decoded,
                                   held |-> dthread[t].decoded]>>,
                   !.evicted = <<[key |-> dthread[t].oldest,
                                  oldest |-> decoder.cache[1][1],
                                  size |-> Len(decoder.cache)]>>]
       ELSE /\ DecodeReturn(t, FALSE, Raise("KeyError"), None)
            /\ UNCHANGED decoder
    /\ UNCHANGED thread_frame

\* The decoder serves the upload mode; the settings the threads never read
\* are fixed.
InitThreads ==
    /\ InitSubscriber
    /\ ingest_mode = INGEST_MODE_LETSMESH_UPLOAD
    /\ ~webhooks
    /\ ~cleanup_enabled
    /\ ~node_cleanup_enabled
    /\ cleanup_interval_hours = 1

NextThreads ==
    \/ \E t \in Callbacks, raw_hex \in DecodeRawHexes : DecodeBegin(t, raw_hex)
    \/ \E t \in Callbacks : DecodeGet(t)
    \/ \E t \in Callbacks : DecodeContains(t)
    \/ \E t \in Callbacks : CommandCheckedTest(t)
    \/ \E t \in Callbacks : CommandSetChecked(t)
    \/ \E t \in Callbacks, command_exists \in BOOLEAN : CommandWhich(t, command_exists)
    \/ \E t \in Callbacks : CommandWarnTest(t)
    \/ \E t \in Callbacks : CommandWarn(t)
    \/ \E t \in Callbacks, proc \in ThreadRuns : DecodeRun(t, proc)
    \/ \E t \in Callbacks : DecodeInsert(t)
    \/ \E t \in Callbacks : DecodeLen(t)
    \/ \E t \in Callbacks : DecodePop(t)

SpecDecoderThreads == InitThreads /\ [][NextThreads]_vars

\* C32: under concurrent callbacks the cache never holds more than the
\* configured maximum plus the one entry being inserted, every eviction
\* removes the entry that is the oldest at that moment and is the only
\* eviction its insert needed, and no eviction fails on a key another
\* thread has removed.
C32_CacheMutationsExclusive ==
    /\ Len(decoder.cache) <= DecodeCacheMaxsize + 1
    /\ \A i \in 1..Len(decode_hist.evicted) :
           /\ decode_hist.evicted[i].key = decode_hist.evicted[i].oldest
           /\ decode_hist.evicted[i].size = DecodeCacheMaxsize + 1
    /\ \A i \in 1..Len(decode_hist.returned) :
           ~Raised(decode_hist.returned[i].value)

\* C33: the command is looked up at most once, no call reads the
\* availability before a lookup has stored it, and the warning is logged at
\* most once.
C33_CommandCheckedOnce ==
    /\ decode_hist.checks <= 1
    /\ decode_hist.unrecorded_reads = 0
    /\ decode_hist.warnings <= 1

\* C35: a call that returns on the cache-hit path returns the value the
\* cache holds for its key at the membership test.
C35_CacheHitReturnsHeldValue ==
    \A i \in 1..Len(decode_hist.returned) :
        decode_hist.returned[i].hit =>
            decode_hist.returned[i].value = decode_hist.returned[i].held


(***************************************************************************)
(* handle_trace_data under concurrent ingestion callbacks                  *)
(*                                                                         *)
(* Each callback thread steps through the handler: the hash and the query  *)
(* for an existing row, the query for the receiver node, and the exit of   *)
(* the session scope, which commits what the session added or, when the    *)
(* store rejects it, rolls back and raises into _dispatch_event.  The      *)
(* queries read what is committed at their step.  trace_hist records each  *)
(* event handled: its tag, whether its hash existed, how it ended, and     *)
(* whether the store changed.                                              *)
(***************************************************************************)
MaxTraceEvents == 3
TraceTags == {None, I(0), I(7)}
TraceReceivers == {"R1", "R2"}

TraceRow(id, receiver_node_id, initiator_tag, received_at, event_hash) ==
    [id |-> id, receiver_node_id |-> receiver_node_id,
     initiator_tag |-> initiator_tag, received_at |-> received_at,
     event_hash |-> event_hash]

TraceNodeRow(public_key, first_seen, last_seen) ==
    [t |-> "Node", id |-> public_key, public_key |-> public_key,
     first_seen |-> first_seen, last_seen |-> last_seen]

\* ix_trace_paths_event_hash of the earlier migration: not unique
NonUniqueEventHashIndex(db, event_hash) == FALSE

\* ix_trace_paths_event_hash_unique: the store rejects a second row with an
\* event_hash it holds
ViolatesUniqueEventHash(db, event_hash) ==
    \E row \in db["trace_paths"] : row.event_hash = event_hash

\* the unique public_key of nodes
ViolatesUniquePublicKey(db, public_key) ==
    \E node \in db["nodes"] : node.public_key = public_key

\* everything but the store and the trace threads
trace_frame == <<config_vars, hash_vars, decode_vars, lifecycle_vars, history_vars, cleaner, last_cleanup, now, cleanup_log, cleanup_calls, handlers, decoder, webhook_queue, webhook_lock, cb, worker>>

\* the handler of thread t is left, with the outcome and the next store
TraceEnd(t, outcome, db) ==
    /\ tthread' = [tthread EXCEPT ![t] = IdleTrace]
    /\ store' = db
    /\ trace_hist' = Append(trace_hist,
           [initiator_tag |-> tthread[t].initiator_tag,
            existing |-> tthread[t].existing,
            outcome |-> outcome, wrote |-> db # store])

\* handle_trace_data, lines 30-45: an event without initiator_tag returns;
\* otherwise the hash of the tag is computed
TraceBegin(t, public_key, initiator_tag) ==
    /\ tthread[t].pc = "idle"
    /\ Len(trace_hist) + Cardinality({u \in Callbacks : tthread[u].pc # "idle"}) < MaxTraceEvents
    /\ IF IsNone(initiator_tag)
       THEN /\ tthread' = tthread
            /\ trace_hist' = Append(trace_hist,
                   [initiator_tag |-> None, existing |-> FALSE,
                    outcome |-> "no_tag", wrote |-> FALSE])
       ELSE /\ tthread' = [tthread EXCEPT ![t] =
                   [IdleTrace EXCEPT !.pc = "select",
                                     !.public_key = public_key,
                                     !.initiator_tag = initiator_tag,
                                     !.event_hash = ComputeTraceHash(initiator_tag)]]
            /\ UNCHANGED trace_hist
    /\ UNCHANGED <<trace_frame, store>>

\* lines 47-55: the query for a row with the hash; a duplicate is skipped
TraceSelect(t) ==
    /\ tthread[t].pc = "select"
    /\ IF \E row \in store["trace_paths"] : row.event_hash = tthread[t].event_hash
       THEN /\ tthread' = [tthread EXCEPT ![t] = IdleTrace]
            /\ trace_hist' = Append(trace_hist,
                   [initiator_tag |-> tthread[t].initiator_tag,
                    existing |-> TRUE, outcome |-> "skipped",
                    wrote |-> FALSE])
       ELSE /\ tthread' = [tthread EXCEPT ![t].pc = "receiver"]
            /\ UNCHANGED trace_hist
    /\ UNCHANGED <<trace_frame, store>>

\* lines 57-72: the receiver node is looked up; a new one is added to the
\* session, a known one gets its last_seen set
TraceReceiver(t) ==
    /\ tthread[t].pc = "receiver"
    /\ tthread' = [tthread EXCEPT ![t].pc = "commit",
           ![t].receiver_node =
               IF \E node \in store["nodes"] : node.public_key = tthread[t].public_key
               THEN CHOOSE node \in store["nodes"] : node.public_key = tthread[t].public_key
               ELSE None]
    /\ UNCHANGED <<trace_frame, store, trace_hist>>

\* What the session of thread th writes when it commits
TraceWrites(db, th, id, at) ==
    [db EXCEPT
       !["nodes"] = (@ \ {node \in @ : node.public_key = th.public_key})
                    \cup {IF IsNone(th.receiver_node)
                          THEN TraceNodeRow(th.public_key, at, at)
                          ELSE [th.receiver_node EXCEPT !.last_seen = at]},
       !["trace_paths"] = @ \cup {TraceRow(id, th.public_key, th.initiator_tag,
                                           at, th.event_hash)}]

\* lines 74-89 and the exit of session_scope: the row is added and the
\* session commits; a row the store rejects (the node of line 64, or the
\* trace path) rolls the session back and the exception is caught in
\* _dispatch_event (subscriber.py 887-893)
TraceCommit(t) ==
    /\ tthread[t].pc = "commit"
    /\ IF /\ IsNone(tthread[t].receiver_node)
          /\ ViolatesUniquePublicKey(store, tthread[t].public_key)
       THEN TraceEnd(t, "node_rejected", store)
       ELSE IF ViolatesUniqueEventHash(store, tthread[t].event_hash)
       THEN TraceEnd(t, "rejected", store)
       ELSE TraceEnd(t, "stored",
                     TraceWrites(store, tthread[t], Len(trace_hist) + 1, now))
    /\ UNCHANGED trace_frame

InitTrace ==
    /\ InitSubscriber
    /\ ingest_mode = INGEST_MODE_NATIVE
    /\ ~webhooks
    /\ ~cleanup_enabled
    /\ ~node_cleanup_enabled
    /\ cleanup_interval_hours = 1

NextTrace ==
    \/ \E t \in Callbacks, public_key \in TraceReceivers, initiator_tag \in TraceTags : TraceBegin(t, public_key, initiator_tag)
    \/ \E t \in Callbacks : TraceSelect(t)
    \/ \E t \in Callbacks : TraceReceiver(t)
    \/ \E t \in Callbacks : TraceCommit(t)

SpecTrace == InitTrace /\ [][NextTrace]_vars

TracePathsOf(initiator_tag) ==
    {row \in store["trace_paths"] : row.initiator_tag = initiator_tag}

\* C34: the store holds at most one trace path per initiator tag; an event
\* whose hash exists is skipped and writes nothing; an insert the unique
\* index on event_hash rejects is rolled back and caught, leaving the one
\* row of the tag; an event without a tag stores nothing.
C34_OneTracePathPerTag ==
    /\ \A tag \in TraceTags : Cardinality(TracePathsOf(tag)) <= 1
    /\ TracePathsOf(None) = {}
    /\ \A i \in 1..Len(trace_hist) :
         Let([e \in {trace_hist[i]} |->
            /\ IsNone(e.initiator_tag) <=> e.outcome = "no_tag"
            /\ e.existing <=> e.outcome = "skipped"
            /\ e.wrote <=> e.outcome = "stored"
            /\ e.outcome \in {"stored", "skipped", "rejected"} =>
                   Cardinality(TracePathsOf(e.initiator_tag)) = 1])

\* Two reports of one tag raced: the second insert was rejected and caught,
\* and one row of the tag is stored
C34_Witness ==
    \E i, j \in 1..Len(trace_hist) :
        /\ trace_hist[i].outcome = "stored"
        /\ trace_hist[j].outcome = "rejected"
        /\ trace_hist[i].initiator_tag = trace_hist[j].initiator_tag
        /\ Cardinality(TracePathsOf(trace_hist[i].initiator_tag)) = 1
        /\ \E k \in 1..Len(trace_hist) : trace_hist[k].outcome = "skipped"


(***************************************************************************)
(* start() called again: on a running service, and after a stop().  No     *)
(* message arrives, so the webhook threads find their queue empty.         *)
(***************************************************************************)
\* A service with the webhook processor, or one with the cleanup scheduler
InitRestart ==
    /\ Init
    /\ ingest_mode = INGEST_MODE_NATIVE
    /\ cleanup_interval_hours = 1
    /\ node_cleanup_enabled = cleanup_enabled
    /\ webhooks = ~cleanup_enabled

NextRestart ==
    \/ \E outcome \in StartOutcomes : StartConnectWithin(outcome, MaxRestarts)
    \/ StartRun
    \/ Stop
    \/ StopCleanupScheduler
    \/ StopWebhookProcessor
    \/ StopMqtt
    \/ \E w \in Workers : WorkerLoop(w)
    \/ \E w \in Workers : WorkerAcquire(w)
    \/ \E w \in Workers : WorkerCopy(w)
    \/ \E w \in Workers : WorkerSleep(w)
    \/ \E w \in Workers : CleanupCheck(w)
    \/ \E w \in Workers : CleanupRun(w, TRUE, 0)
    \/ \E w \in Workers : CleanupWait(w)
    \/ \E w \in Workers : CleanupSleep(w)

SpecRestart == InitRestart /\ [][NextRestart]_vars

ActiveWebhookWorkers == {w \in Workers : ThreadAlive(worker[w].pc)}
ActiveCleanupWorkers == {w \in Workers : ThreadAlive(cleaner[w].pc)}

\* C36: over any sequence of start() and stop() calls at most one webhook
\* worker and at most one cleanup worker are alive.
C36_AtMostOneWorkerOfEachKind ==
    /\ Cardinality(ActiveWebhookWorkers) <= 1
    /\ Cardinality(ActiveCleanupWorkers) <= 1


(***************************************************************************)
(* Cleanup runs that raise                                                 *)
(***************************************************************************)
FilledStore == [table \in Tables |-> RowPool(table)]

\* Both families of cleanup enabled, over an empty and a filled database,
\* with an interval of one and of two hours
InitRetry ==
    /\ \E db \in {EmptyStore, FilledStore} :
          InitSubscriberOn(InitDecoder, db, 1, 1)
    /\ ingest_mode = INGEST_MODE_NATIVE
    /\ ~webhooks
    /\ cleanup_enabled
    /\ node_cleanup_enabled

SpecRetry == InitRetry /\ [][NextStore]_vars

\* the step is a cleanup run of thread w that raised
FailedRunBy(w) ==
    /\ Len(cleanup_log') = Len(cleanup_log) + 1
    /\ cleanup_log'[Len(cleanup_log')].worker = w
    /\ ~cleanup_log'[Len(cleanup_log')].ok

\* C37: _last_cleanup changes only in a run that did not raise, to that
\* run's check time; a run that raised leaves its thread in the hourly wait
\* and deleted no node unless the event cleanup had gone through (its
\* exception skips the node cleanup); and a check finds no run due only when
\* a run that went through was checked less than the interval before it, so
\* the failed run of a single cleanup thread is repeated at its next check.
C37_OnlySuccessfulRunAdvancesLastCleanup ==
    [][ /\ last_cleanup' # last_cleanup =>
              /\ Len(cleanup_log') = Len(cleanup_log) + 1
              /\ cleanup_log'[Len(cleanup_log')].ok
              /\ last_cleanup' = I(cleanup_log'[Len(cleanup_log')].checked_at)
        /\ \A w \in Workers :
              /\ FailedRunBy(w) =>
                    /\ cleaner'[w].pc = "waiting"
                    /\ last_cleanup' = last_cleanup
                    /\ \/ store' = store
                       \/ /\ store'["nodes"] = store["nodes"]
                          /\ \A table \in EventTableSet :
                                store'[table] =
                                    store[table] \
                                        OldRows(store, table, now,
                                                cleanup_retention_days)
              /\ (cleaner[w].pc = "check" /\ cleaner'[w].pc = "waiting") =>
                    /\ \E k \in DOMAIN cleanup_log :
                          /\ cleanup_log[k].ok
                          /\ last_cleanup = I(cleanup_log[k].checked_at)
                          /\ cleaner'[w].now - cleanup_log[k].checked_at
                                < cleanup_interval_hours * SecondsPerHour
                    /\ (\A k \in DOMAIN cleanup_log :
                            cleanup_log[k].worker = w) =>
                          cleanup_log[Len(cleanup_log)].ok
      ]_vars

\* With an interval of two hours the first run raised, the thread went on,
\* and the check one hour later ran the cleanup again, which set
\* _last_cleanup and deleted the stale nodes
C37_Witness ==
    /\ cleanup_interval_hours = 2
    /\ Len(cleanup_log) = 2
    /\ ~cleanup_log[1].ok
    /\ cleanup_log[1].after["nodes"] = cleanup_log[1].before["nodes"]
    /\ cleanup_log[1].after # cleanup_log[1].before
    /\ cleanup_log[2].ok
    /\ cleanup_log[2].checked_at - cleanup_log[1].checked_at = SecondsPerHour
    /\ Deleted(cleanup_log[2], "nodes") # {}
    /\ last_cleanup = I(cleanup_log[2].checked_at)


(***************************************************************************)
(* The webhook queue of a service that is started again                    *)
(***************************************************************************)
InitRequeue ==
    /\ Init
    /\ ingest_mode = INGEST_MODE_NATIVE
    /\ webhooks
    /\ ~cleanup_enabled
    /\ ~node_cleanup_enabled
    /\ cleanup_interval_hours = 1

NextRequeue ==
    \/ StartConnectWithin("ok", MaxRestarts)
    \/ StartRun
    \/ Stop
    \/ StopCleanupScheduler
    \/ StopWebhookProcessor
    \/ StopMqtt
    \/ \E m \in ScheduledMessages, env \in PipelineEnvs : HandleMqttMessageUpTo(MaxMsgs, "cb1", m, env)
    \/ DispatchEvent("cb1", "stored")
    \/ CallbackAcquire("cb1")
    \/ QueueWebhookEvent("cb1")
    \/ \E w \in Workers : WorkerLoop(w)
    \/ \E w \in Workers : WorkerAcquire(w)
    \/ \E w \in Workers : WorkerCopy(w)
    \/ \E w \in Workers : WorkerClear(w)
    \/ \E w \in Workers, outcome \in DispatchOutcomes : WorkerDispatch(w, outcome)
    \/ \E w \in Workers : WorkerSleep(w)

SpecRequeue == InitRequeue /\ [][NextRequeue]_vars

\* the place of event id in the order of the appends to the webhook queue
EnqueuePlace(id) == CHOOSE i \in 1..Len(enqueued) : enqueued[i] = id

\* C38: the dispatch calls are made in the order in which their events were
\* appended to the webhook queue, and no event is dispatched while one
\* appended before it still waits in a drained batch.
C38_DispatchInEnqueueOrder ==
    /\ \A i, j \in 1..Len(dispatched) :
          i < j => EnqueuePlace(dispatched[i].id) < EnqueuePlace(dispatched[j].id)
    /\ \A j \in 1..Len(dispatched) :
          \A id \in {enqueued[k] : k \in 1..(EnqueuePlace(dispatched[j].id) - 1)} :
              ~InBatch(id)


(***************************************************************************)
(* The canonical string of the message hash                                *)
(***************************************************************************)
\* Messages whose text or sender prefix is absent, empty, or holds the
\* delimiter
DelimiterReports ==
    {[text |-> text, pubkey_prefix |-> pubkey_prefix,
      channel_idx |-> channel_idx, sender_timestamp |-> sender_timestamp,
      txt_type |-> txt_type, receiver |-> "r1",
      received_at |-> ReceivedBy("r1")] :
        text \in {None, S(""), S("a"), S("a|b")},
        pubkey_prefix \in {None, S(""), S("b|"), S("AABBCCDDEEFF")},
        channel_idx \in {None, I(0)},
        sender_timestamp \in {None, DT(2024, 1, 1, 0, 4, 59, 0, 0)},
        txt_type \in {None, I(0)}}

NextCanonical == \E m \in DelimiterReports : HashMessage(m)

SpecCanonical == InitHash /\ [][NextCanonical]_vars

\* C39: two calls of the message hash that differ in text, sender prefix,
\* channel index, sender timestamp or type hash different canonical strings.
C39_CanonicalStringInjective ==
    \A i \in HashCalls("message") :
       \A j \in HashCalls("message") :
          hash_calls[i].args # hash_calls[j].args =>
              hash_calls[i].result.of # hash_calls[j].result.of


\* C40: whatever strings are configured as channel keys, each of them
\* normalizes to a key with its two-digit channel hash or to nothing, the
\* decoder is constructed, and it holds the built-in keys.
C40_ConstructionNeverFails ==
    /\ \A i \in DOMAIN letsmesh_decoder_channel_keys :
          \E entry \in {NormalizeChannelEntry(S(letsmesh_decoder_channel_keys[i]))} :
              \/ IsNone(entry)
              \/ /\ entry.t = "ChannelKey"
                 /\ Len(entry.channel_hash) = 2
                 /\ AllIn(entry.channel_hash, HexDigits)
    /\ decoder.t = "LetsMeshPacketDecoder"
    /\ \A b \in DOMAIN BuiltinChannelKeys :
          \E k \in DOMAIN decoder.channel_key_infos :
              /\ decoder.channel_key_infos[k].key_hex = BuiltinChannelKeys[b][2]
              /\ decoder.channel_key_infos[k].label = S(BuiltinChannelKeys[b][1])

====
